---- MODULE Spec2Model ----
(***************************************************************************)
(* Model of the Sort Imports extension (Wolshebnik-sort/Sort).             *)
(*                                                                         *)
(* Texts are TLA+ strings handled character by character, as the           *)
(* TypeScript code does: SubSeq, Len and \o on strings play the role of    *)
(* slice, length and concatenation.  Indices are 0-based as in the source, *)
(* and -1 means "not found".                                               *)
(***************************************************************************)
EXTENDS Integers, Sequences, FiniteSets, TLC

(***************************************************************************)
(* String primitives (String.prototype.* as used by the source).  Scans    *)
(* over the characters of a text are written with bounded quantifiers      *)
(* and CHOOSE, so that their evaluation does not nest one level per        *)
(* character.                                                              *)
(***************************************************************************)

\* s[i] for a 0-based i; "" stands for undefined (out of range).
At(s, i) == IF i >= 0 /\ i < Len(s) THEN SubSeq(s, i + 1, i + 1) ELSE ""

\* s.slice(a, b) for 0 <= a, b
Slice(s, a, b) ==
  LET e == IF b > Len(s) THEN Len(s) ELSE b
  IN IF a >= e THEN "" ELSE SubSeq(s, a + 1, e)

\* s.slice(a)
SliceFrom(s, a) == Slice(s, a, Len(s))

\* the characters \s matches (of the model's alphabet)
IsSpace(c) == c \in {" ", "\t", "\n", "\r"}

\* the least index of the set S, or none if S is empty: a loop that scans
\* upwards stops at the least index its condition holds at
Least(S, none) ==
  IF S = {} THEN none ELSE CHOOSE j \in S : \A k \in S : j <= k

\* s.indexOf(p, from)
IndexFrom(s, p, from) ==
  Least({j \in from..(Len(s) - Len(p)) : Slice(s, j, j + Len(p)) = p}, -1)

\* s.indexOf(p)
IndexOf(s, p) == IndexFrom(s, p, 0)

\* s.includes(p)
Includes(s, p) == IndexOf(s, p) # -1

\* the characters \w matches
WordChars ==
  {"a", "b", "c", "d", "e", "f", "g", "h", "i", "j", "k", "l", "m", "n",
   "o", "p", "q", "r", "s", "t", "u", "v", "w", "x", "y", "z", "A", "B",
   "C", "D", "E", "F", "G", "H", "I", "J", "K", "L", "M", "N", "O", "P",
   "Q", "R", "S", "T", "U", "V", "W", "X", "Y", "Z", "0", "1", "2", "3",
   "4", "5", "6", "7", "8", "9", "_"}

IsWordChar(c) == c \in WordChars

\* s.startsWith(p)
StartsWith(s, p) == Len(p) <= Len(s) /\ Slice(s, 0, Len(p)) = p

\* s.endsWith(p)
EndsWith(s, p) == Len(p) <= Len(s) /\ SliceFrom(s, Len(s) - Len(p)) = p

\* index of the first non-whitespace character at or after i (Len(s) if none)
FirstNonSpace(s, i) ==
  Least({j \in i..(Len(s) - 1) : ~IsSpace(At(s, j))}, Len(s))

\* index after the last non-whitespace character before i (0 if none)
LastNonSpace(s, i) ==
  Least({e \in 0..i : \A k \in e..(i - 1) : IsSpace(At(s, k))}, i)

\* s.trim()
Trim(s) == Slice(s, FirstNonSpace(s, 0), LastNonSpace(s, Len(s)))

\* s.trimStart()
TrimStart(s) == SliceFrom(s, FirstNonSpace(s, 0))

RECURSIVE ConcatRange(_, _, _)
\* pieces[lo] \o ... \o pieces[hi], halving the range
ConcatRange(pieces, lo, hi) ==
  IF lo > hi THEN ""
  ELSE IF lo = hi THEN pieces[lo]
  ELSE LET mid == (lo + hi) \div 2
       IN ConcatRange(pieces, lo, mid) \o ConcatRange(pieces, mid + 1, hi)

\* seq.join('')
Concat(pieces) == ConcatRange(pieces, 1, Len(pieces))

\* s.replace(/\s+/g, ' '): the first character of a whitespace run becomes
\* one space, the others vanish
CollapseSpaces(s) ==
  Concat([i \in 1..Len(s) |->
            IF IsSpace(At(s, i - 1))
            THEN IF IsSpace(At(s, i - 2)) THEN "" ELSE " "
            ELSE At(s, i - 1)])

\* block.replace(/\s+/g, ' ').trim()
Normalize(s) == Trim(CollapseSpaces(s))

RECURSIVE SplitFrom(_, _, _)
\* s.split(sep) for a one-character separator, from index i on
SplitFrom(s, sep, i) ==
  LET j == IndexFrom(s, sep, i)
  IN IF j = -1 THEN <<SliceFrom(s, i)>>
     ELSE <<Slice(s, i, j)>> \o SplitFrom(s, sep, j + 1)

\* s.split(sep)
Split(s, sep) == SplitFrom(s, sep, 0)

\* one line with a trailing \r removed: the \r? of split(/\r?\n/)
DropCR(l) == IF EndsWith(l, "\r") THEN Slice(l, 0, Len(l) - 1) ELSE l

\* content.split(/\r?\n/)
SplitLines(s) == LET ls == Split(s, "\n")
                 IN [i \in 1..Len(ls) |->
                       IF i < Len(ls) THEN DropCR(ls[i]) ELSE ls[i]]

\* seq.join(sep)
Join(seq, sep) ==
  Concat([i \in 1..Len(seq) |-> IF i = 1 THEN seq[i] ELSE sep \o seq[i]])

RECURSIVE KeepUpTo(_, _, _)
\* the elements of seq at the indices of keep that are at most n, in order
KeepUpTo(seq, keep, n) ==
  IF n = 0 THEN <<>>
  ELSE KeepUpTo(seq, keep, n - 1) \o (IF n \in keep THEN <<seq[n]>> ELSE <<>>)

\* seq.filter(Boolean) on strings
NonEmpty(seq) == KeepUpTo(seq, {n \in 1..Len(seq) : seq[n] # ""}, Len(seq))

\* the lower-case letter of each upper-case letter
LowerOf ==
  "A" :> "a" @@ "B" :> "b" @@ "C" :> "c" @@ "D" :> "d" @@ "E" :> "e" @@
  "F" :> "f" @@ "G" :> "g" @@ "H" :> "h" @@ "I" :> "i" @@ "J" :> "j" @@
  "K" :> "k" @@ "L" :> "l" @@ "M" :> "m" @@ "N" :> "n" @@ "O" :> "o" @@
  "P" :> "p" @@ "Q" :> "q" @@ "R" :> "r" @@ "S" :> "s" @@ "T" :> "t" @@
  "U" :> "u" @@ "V" :> "v" @@ "W" :> "w" @@ "X" :> "x" @@ "Y" :> "y" @@
  "Z" :> "z"

\* table[c], or default for a character the table does not hold
Lookup(table, c, default) == IF c \in DOMAIN table THEN table[c] ELSE default

LowerChar(c) == Lookup(LowerOf, c, c)

\* s.toLowerCase()
ToLower(s) == Concat([i \in 1..Len(s) |-> LowerChar(At(s, i - 1))])

\* s.replace(/\n{3,}/g, '\n\n'): of a run of newlines the first two stay
CollapseNewlines(s) ==
  Concat([i \in 1..Len(s) |->
            IF At(s, i - 1) = "\n" /\ At(s, i - 2) = "\n" /\ At(s, i - 3) = "\n"
            THEN "" ELSE At(s, i - 1)])

\* number of occurrences of the character c in s
CountChar(s, c) == Cardinality({i \in 0..(Len(s) - 1) : At(s, i) = c})

(***************************************************************************)
(* Comparator (importFormatting.ts: compareStrings).                       *)
(***************************************************************************)

\* Primary collation order of localeCompare for the characters of the model
\* (whitespace, punctuation, symbols, digits, letters); sensitivity 'base'
\* makes upper and lower case equal.
RankOf ==
  "\t" :> 0 @@ "\n" :> 1 @@ "\r" :> 2 @@ " " :> 3 @@ "_" :> 4 @@
  "-" :> 5 @@ "," :> 6 @@ ";" :> 7 @@ ":" :> 8 @@ "!" :> 9 @@ "?" :> 10 @@
  "." :> 11 @@ "'" :> 12 @@ "\"" :> 13 @@ "(" :> 14 @@ ")" :> 15 @@
  "[" :> 16 @@ "]" :> 17 @@ "{" :> 18 @@ "}" :> 19 @@ "@" :> 20 @@
  "*" :> 21 @@ "/" :> 22 @@ "\\" :> 23 @@ "&" :> 24 @@ "%" :> 25 @@
  "#" :> 26 @@ "^" :> 27 @@ "+" :> 28 @@ "<" :> 29 @@ "=" :> 30 @@
  ">" :> 31 @@ "|" :> 32 @@ "~" :> 33 @@ "$" :> 34 @@ "0" :> 35 @@
  "1" :> 36 @@ "2" :> 37 @@ "3" :> 38 @@ "4" :> 39 @@ "5" :> 40 @@
  "6" :> 41 @@ "7" :> 42 @@ "8" :> 43 @@ "9" :> 44 @@ "a" :> 45 @@
  "b" :> 46 @@ "c" :> 47 @@ "d" :> 48 @@ "e" :> 49 @@ "f" :> 50 @@
  "g" :> 51 @@ "h" :> 52 @@ "i" :> 53 @@ "j" :> 54 @@ "k" :> 55 @@
  "l" :> 56 @@ "m" :> 57 @@ "n" :> 58 @@ "o" :> 59 @@ "p" :> 60 @@
  "q" :> 61 @@ "r" :> 62 @@ "s" :> 63 @@ "t" :> 64 @@ "u" :> 65 @@
  "v" :> 66 @@ "w" :> 67 @@ "x" :> 68 @@ "y" :> 69 @@ "z" :> 70

CharRank(c) == Lookup(RankOf, LowerChar(c), -1)

\* the ranks of the characters of each text of texts
Ranks(texts) ==
  [n \in 1..Len(texts) |-> [i \in 1..Len(texts[n]) |-> CharRank(At(texts[n], i - 1))]]

\* two rank sequences compared: decided by the first position where they
\* differ, else by the lengths
CompareRanks(r) ==
  LET n == IF Len(r[1]) < Len(r[2]) THEN Len(r[1]) ELSE Len(r[2])
      d == Least({i \in 1..n : r[1][i] # r[2][i]}, 0)
  IN IF d # 0
     THEN IF r[1][d] < r[2][d] THEN -1 ELSE 1
     ELSE IF Len(r[1]) < Len(r[2]) THEN -1
     ELSE IF Len(r[1]) > Len(r[2]) THEN 1
     ELSE 0

\* a.localeCompare(b, undefined, { sensitivity: 'base' })
LocaleCompare(a, b) == CompareRanks(Ranks(<<a, b>>))

compareStrings(a, b, mode) ==
  IF mode # "alphabetical" /\ Len(a) # Len(b) THEN Len(a) - Len(b)
  ELSE LocaleCompare(a, b)

RECURSIVE InsertSorted(_, _, _)
\* index x placed after every index whose element does not compare greater;
\* cmp[i, j] is the comparator's result on the elements at i and j
InsertSorted(sorted, x, cmp) ==
  IF Len(sorted) = 0 THEN <<x>>
  ELSE IF cmp[Head(sorted), x] <= 0
       THEN <<Head(sorted)>> \o InsertSorted(Tail(sorted), x, cmp)
       ELSE <<x>> \o sorted

RECURSIVE SortPrefix(_, _)
SortPrefix(n, cmp) ==
  IF n = 0 THEN <<>> ELSE InsertSorted(SortPrefix(n - 1, cmp), n, cmp)

\* Array.prototype.sort: a stable sort; cmp[i, j] is the comparator's result
\* on seq[i] and seq[j]
SortBy(seq, cmp) ==
  LET order == SortPrefix(Len(seq), cmp)
  IN [k \in 1..Len(seq) |-> seq[order[k]]]

(***************************************************************************)
(* Delimiter scanner (structuredTypeSorter.ts).                            *)
(***************************************************************************)

\* A TLA+ string cannot hold a backtick: the model writes # for the template
\* string delimiter (and has no other use of #).
Backtick == "#"

\* Where the string or comment opened at i ends: the index of the first
\* character read after it in no mode (Len(text) or more if it never ends).
\*   line comment:  after the first \n at or after i + 2
\*   block comment: after the first / preceded by * at or after i + 2
\*   string:        after the first closing quote not preceded by \
SkipLexeme(text, i) ==
  LET char == At(text, i)
      nextChar == At(text, i + 1)
      last == Len(text) - 1
  IN IF char = "/" /\ nextChar = "/"
     THEN Least({j \in (i + 2)..last : At(text, j) = "\n"}, Len(text)) + 1
     ELSE IF char = "/" /\ nextChar = "*"
     THEN Least({j \in (i + 2)..last : At(text, j - 1) = "*" /\ At(text, j) = "/"},
                Len(text)) + 1
     ELSE Least({j \in (i + 1)..last : At(text, j) = char /\ At(text, j - 1) # "\\"},
                Len(text)) + 1

\* the character at i opens a comment or a string (read in no mode)
OpensLexeme(text, i) ==
  LET char == At(text, i)
      nextChar == At(text, i + 1)
  IN \/ char = "/" /\ nextChar \in {"/", "*"}
     \/ char \in {"'", "\"", Backtick}

RECURSIVE MatchBraceFrom(_, _, _)
\* the loop of findMatchingBraceIndex from index i on, in no mode, with the
\* running braceCount; it moves from one brace, string or comment to the next
MatchBraceFrom(text, i, braceCount) ==
  LET Visit(j) ==
        IF j = -1 THEN -1
        ELSE IF At(text, j) = "{" THEN MatchBraceFrom(text, j + 1, braceCount + 1)
        ELSE IF At(text, j) # "}" THEN MatchBraceFrom(text, SkipLexeme(text, j), braceCount)
        ELSE IF braceCount - 1 = 0 THEN j
        ELSE MatchBraceFrom(text, j + 1, braceCount - 1)
  IN Visit(Least({k \in i..(Len(text) - 1) :
                    OpensLexeme(text, k) \/ At(text, k) \in {"{", "}"}}, -1))

findMatchingBraceIndex(text, openBraceIdx) == MatchBraceFrom(text, openBraceIdx, 0)

RECURSIVE NextOpenBraceFrom(_, _)
NextOpenBraceFrom(text, i) ==
  LET Visit(j) ==
        IF j = -1 THEN -1
        ELSE IF At(text, j) = "{" THEN j
        ELSE NextOpenBraceFrom(text, SkipLexeme(text, j))
  IN Visit(Least({k \in i..(Len(text) - 1) : OpensLexeme(text, k) \/ At(text, k) = "{"},
                 -1))

findNextOpenBraceIndex(text, startIdx) == NextOpenBraceFrom(text, startIdx)

(***************************************************************************)
(* Structured type sorter (structuredTypeSorter.ts).                       *)
(***************************************************************************)

\* opening minus closing delimiters on one line
Balance(line, open, close) == CountChar(line, open) - CountChar(line, close)

RECURSIVE CollectMembersFrom(_, _, _, _, _, _)
\* the loop of collectTopLevelMembers over lines[k..]: currentMember is the
\* member being accumulated, b/p/k the running brace/paren/bracket counts
CollectMembersFrom(lines, n, currentMember, braceCount, parenCount, bracketCount) ==
  LET Terminated(trimmed) == EndsWith(trimmed, ";") \/ EndsWith(trimmed, ",")
      Push(cur, bc, pc2, kc, isMemberTerminator) ==
        IF bc = 0 /\ pc2 = 0 /\ kc = 0 /\ isMemberTerminator
        THEN <<Join(cur, "\n")>> \o CollectMembersFrom(lines, n + 1, <<>>, bc, pc2, kc)
        ELSE CollectMembersFrom(lines, n + 1, cur, bc, pc2, kc)
      Read(line, trimmed) ==
        IF trimmed = "" /\ Len(currentMember) = 0
        THEN CollectMembersFrom(lines, n + 1, currentMember,
                                braceCount, parenCount, bracketCount)
        ELSE Push(Append(currentMember, line),
                  braceCount + Balance(line, "{", "}"),
                  parenCount + Balance(line, "(", ")"),
                  bracketCount + Balance(line, "[", "]"),
                  Terminated(trimmed))
  IN IF n > Len(lines)
     THEN IF \E i \in 1..Len(currentMember) : Trim(currentMember[i]) # ""
          THEN <<Join(currentMember, "\n")>> ELSE <<>>
     ELSE Read(lines[n], Trim(lines[n]))

collectTopLevelMembers(body) ==
  CollectMembersFrom(Split(body, "\n"), 1, <<>>, 0, 0, 0)

RECURSIVE FirstNonBlankLine(_, _)
FirstNonBlankLine(lines, n) ==
  LET Pick(trimmed) == IF trimmed # "" THEN trimmed ELSE FirstNonBlankLine(lines, n + 1)
  IN IF n > Len(lines) THEN "" ELSE Pick(Trim(lines[n]))

getMemberSortKey(member) == FirstNonBlankLine(Split(member, "\n"), 1)

\* the sort value of a member in every mode: its first non-blank line
getStructuredMemberFirstLine(member, mode) == getMemberSortKey(member)

getStructuredMemberSortValue(member, mode) ==
  IF mode = "alphabetical" THEN getMemberSortKey(member) ELSE Normalize(member)

RECURSIVE sortStructuredObjectLiteralsFrom(_, _, _)
RECURSIVE sortStructuredMembers(_, _)

\* the while loop of sortStructuredObjectLiterals from cursor on
sortStructuredObjectLiteralsFrom(text, cursor, config) ==
  LET Rebuild(openBraceIdx, closeBraceIdx, normalizedBody) ==
        Slice(text, cursor, openBraceIdx + 1)
          \o (IF Len(collectTopLevelMembers(normalizedBody)) > 0
              THEN "\n" \o Join(sortStructuredMembers(normalizedBody, config), "\n") \o "\n"
              ELSE normalizedBody)
          \o At(text, closeBraceIdx)
          \o sortStructuredObjectLiteralsFrom(text, closeBraceIdx + 1, config)
      Close(openBraceIdx, closeBraceIdx) ==
        IF closeBraceIdx = -1 THEN SliceFrom(text, cursor)
        ELSE Rebuild(openBraceIdx, closeBraceIdx,
                     sortStructuredObjectLiteralsFrom(
                       Slice(text, openBraceIdx + 1, closeBraceIdx), 0, config))
      Open(openBraceIdx) ==
        IF openBraceIdx = -1 THEN SliceFrom(text, cursor)
        ELSE Close(openBraceIdx, findMatchingBraceIndex(text, openBraceIdx))
  IN IF cursor >= Len(text) THEN "" ELSE Open(findNextOpenBraceIndex(text, cursor))

\* the members of a body cut down to the first one collected
keepFirstMember(body, config) ==
  LET First(members) == IF Len(members) = 0 THEN members ELSE <<Head(members)>>
  IN First(collectTopLevelMembers(body))

sortStructuredMembers(body, config) ==
  LET Sorted(normalizedMembers, sortValues) ==
        SortBy(normalizedMembers,
               [i \in 1..Len(sortValues), j \in 1..Len(sortValues) |->
                  compareStrings(sortValues[i], sortValues[j], config.sortMode)])
      Keyed(normalizedMembers) ==
        Sorted(normalizedMembers,
               [i \in 1..Len(normalizedMembers) |->
                  getStructuredMemberSortValue(normalizedMembers[i], config.sortMode)])
      Normalized(members) ==
        Keyed([i \in 1..Len(members) |->
                 sortStructuredObjectLiteralsFrom(members[i], 0, config)])
  IN Normalized(collectTopLevelMembers(body))

sortStructuredObjectLiterals(text, config) ==
  sortStructuredObjectLiteralsFrom(text, 0, config)

\* /^\s*(?:export\s+)?KEYWORD\b/
StartsDeclaration(block, keyword) ==
  LET Here(k) == Slice(block, k, k + Len(keyword)) = keyword
                 /\ ~IsWordChar(At(block, k + Len(keyword)))
      From(i) == IF Slice(block, i, i + 6) = "export" /\ IsSpace(At(block, i + 6))
                 THEN Here(FirstNonSpace(block, i + 6)) ELSE Here(i)
  IN From(FirstNonSpace(block, 0))

\* [openBraceIdx, closeBraceIdx] of the body, or found = FALSE for null
findTopLevelBodyRange(block) ==
  LET Range(openBraceIdx, closeBraceIdx) ==
        IF closeBraceIdx = -1 THEN [found |-> FALSE]
        ELSE [found |-> TRUE, openBraceIdx |-> openBraceIdx,
              closeBraceIdx |-> closeBraceIdx]
      Body(openBraceIdx) ==
        IF openBraceIdx = -1 THEN [found |-> FALSE]
        ELSE Range(openBraceIdx, findMatchingBraceIndex(block, openBraceIdx))
      AfterEquals(equalsIdx, afterEquals) ==
        IF equalsIdx = -1 THEN -1
        ELSE IF At(block, afterEquals) = "{" THEN afterEquals ELSE -1
      TypeBody(equalsIdx) == AfterEquals(equalsIdx, FirstNonSpace(block, equalsIdx + 1))
      Find(interfaceStart) ==
        IF ~interfaceStart /\ ~StartsDeclaration(block, "type") THEN [found |-> FALSE]
        ELSE Body(IF interfaceStart THEN IndexOf(block, "{")
                  ELSE TypeBody(IndexOf(block, "=")))
  IN Find(StartsDeclaration(block, "interface"))

\* StructuredTypeSorter.sort, exported as sortTypeMembers
sortTypeMembers(block, config) ==
  LET Build(bodyRange, sortedMembers) ==
        IF Len(sortedMembers) = 0 THEN block
        ELSE Slice(block, 0, bodyRange.openBraceIdx + 1) \o "\n"
               \o Join(sortedMembers, "\n") \o "\n"
               \o SliceFrom(block, bodyRange.closeBraceIdx)
      Sort(bodyRange) ==
        IF ~bodyRange.found THEN block
        ELSE Build(bodyRange,
                   sortStructuredMembers(
                     Slice(block, bodyRange.openBraceIdx + 1, bodyRange.closeBraceIdx),
                     config))
  IN Sort(findTopLevelBodyRange(block))

(***************************************************************************)
(* Import clause parser (importFormatting.ts).  An absent clause (null)    *)
(* is the empty string: the source only ever tests it for truthiness.      *)
(***************************************************************************)

Quotes == {"'", "\""}

\* /['"][^'"]+['"]\s*;?$/ read at index i (with sameQuote: /(['"])[^'"]+\1\s*;?$/);
\* close is the index of the closing quote
QuotedTail(s, i, sameQuote) ==
  LET Ending(close, after) ==
        [ok |-> /\ At(s, i) \in Quotes
                /\ close > i + 1
                /\ sameQuote => At(s, close) = At(s, i)
                /\ \/ after = Len(s)
                   \/ At(s, after) = ";" /\ after + 1 = Len(s),
         close |-> close]
      Closed(close) == Ending(close, FirstNonSpace(s, close + 1))
  IN Closed(Least({k \in (i + 1)..(Len(s) - 1) : At(s, k) \in Quotes}, -1))

\* /from\s+['"][^'"]+['"]\s*;?$/ read at index p
FromAt(s, p, sameQuote) ==
  LET Quoted(open) == open > p + 4 /\ QuotedTail(s, open, sameQuote).ok
  IN Slice(s, p, p + 4) = "from" /\ Quoted(FirstNonSpace(s, p + 4))

\* the text between the quotes opened at index open
QuotedText(s, open) == Slice(s, open + 1, QuotedTail(s, open, FALSE).close)

\* /^import\s+['"]([^'"]+)['"]\s*;?$/
isSideEffectImport(block) ==
  LET Quoted(open) == open > 6 /\ QuotedTail(block, open, FALSE).ok
  IN StartsWith(block, "import") /\ Quoted(FirstNonSpace(block, 6))

\* /;\s*$/
EndsWithSemicolon(block) == At(block, LastNonSpace(block, Len(block)) - 1) = ";"

\* parseImportBlock; ok = FALSE stands for null.  The main pattern is
\* /^import\s+(type\s+)?(.+?)\s+from\s+(['"])([^'"]+)\3\s*(;)?$/ : the tail
\* is anchored at the end, so `from` is the one followed by the final quoted
\* source, and the optional `type` is taken when a clause is left after it.
parseImportBlock(block) ==
  LET SideEffect(open) ==
        [ok |-> TRUE,
         source |-> QuotedText(block, open),
         quote |-> IF Includes(block, "\"") THEN "\"" ELSE "'",
         importClause |-> "",
         isTypeOnly |-> FALSE,
         hasSemicolon |-> EndsWithSemicolon(block)]
      Parsed(open, clauseStart, clauseEnd, hasType) ==
        [ok |-> TRUE,
         source |-> QuotedText(block, open),
         quote |-> At(block, open),
         importClause |-> Trim(Slice(block, clauseStart, clauseEnd)),
         isTypeOnly |-> hasType,
         hasSemicolon |-> EndsWith(block, ";")]
      Clause(fromIdx, clauseStart, clauseEnd, afterType) ==
        IF \/ ~StartsWith(block, "import")
           \/ clauseStart = 6
           \/ fromIdx = -1
           \/ clauseEnd <= clauseStart
        THEN [ok |-> FALSE]
        ELSE IF /\ Slice(block, clauseStart, clauseStart + 4) = "type"
                /\ IsSpace(At(block, clauseStart + 4))
                /\ clauseEnd > afterType
        THEN Parsed(FirstNonSpace(block, fromIdx + 4), afterType, clauseEnd, TRUE)
        ELSE Parsed(FirstNonSpace(block, fromIdx + 4), clauseStart, clauseEnd, FALSE)
      From(fromIdx, clauseStart) ==
        Clause(fromIdx, clauseStart, LastNonSpace(block, fromIdx),
               FirstNonSpace(block, clauseStart + 4))
      Main(clauseStart) ==
        IF isSideEffectImport(block) THEN SideEffect(clauseStart)
        ELSE From(Least({p \in 7..(Len(block) - 1) :
                           IsSpace(At(block, p - 1)) /\ FromAt(block, p, TRUE)}, -1),
                  clauseStart)
  IN Main(FirstNonSpace(block, 6))

\* getImportSource; "" stands for null.  Second pattern:
\* /\bfrom\s+['"]([^'"]+)['"]\s*;?$/
getImportSource(block) ==
  LET From(fromIdx) ==
        IF fromIdx = -1 THEN "" ELSE QuotedText(block, FirstNonSpace(block, fromIdx + 4))
  IN IF isSideEffectImport(block) THEN QuotedText(block, FirstNonSpace(block, 6))
     ELSE From(Least({p \in 0..(Len(block) - 1) :
                        ~IsWordChar(At(block, p - 1)) /\ FromAt(block, p, FALSE)}, -1))

(***************************************************************************)
(* Import classifier (importFormatting.ts).                                *)
(***************************************************************************)

isAliasImport(source, aliasPrefixes) ==
  LET Matches(trimmed) ==
        /\ trimmed # ""
        /\ IF EndsWith(trimmed, "/") THEN StartsWith(source, trimmed)
           ELSE source = trimmed \/ StartsWith(source, trimmed \o "/")
  IN \E n \in 1..Len(aliasPrefixes) : Matches(Trim(aliasPrefixes[n]))

isExternalLib(source, aliasPrefixes) ==
  /\ ~StartsWith(source, ".")
  /\ ~StartsWith(source, "/")
  /\ ~isAliasImport(source, aliasPrefixes)

isStyleImport(source, styleExtensions) ==
  LET normalized == ToLower(source)
  IN \E n \in 1..Len(styleExtensions) : EndsWith(normalized, styleExtensions[n])

\* the branches of getImportGroup with the react test ahead of the style test
getImportGroupBranchReactFirst(block, config) ==
  LET Branch(normalizedBlock, source) ==
        IF source = "" THEN 0
        ELSE IF isSideEffectImport(normalizedBlock) THEN 1
        ELSE IF source = "react" \/ StartsWith(source, "react/") THEN 3
        ELSE IF isStyleImport(source, config.styleExtensions) THEN 2
        ELSE IF isAliasImport(source, config.aliasPrefixes) THEN 4
        ELSE IF StartsWith(source, ".") \/ StartsWith(source, "/") THEN 5
        ELSE IF isExternalLib(source, config.aliasPrefixes) THEN 6
        ELSE 7
      Normalized(normalizedBlock) == Branch(normalizedBlock, getImportSource(normalizedBlock))
  IN Normalized(Normalize(block))

\* The branch of getImportGroup that returns, numbered in source order:
\* 0 no source (null), 1 side effect, 2 styles, 3 react, 4 alias, 5 relative,
\* 6 external library, 7 the final else.
getImportGroupBranch(block, config) ==
  LET Branch(normalizedBlock, source) ==
        IF source = "" THEN 0
        ELSE IF isSideEffectImport(normalizedBlock) THEN 1
        ELSE IF isStyleImport(source, config.styleExtensions) THEN 2
        ELSE IF source = "react" \/ StartsWith(source, "react/") THEN 3
        ELSE IF isAliasImport(source, config.aliasPrefixes) THEN 4
        ELSE IF StartsWith(source, ".") \/ StartsWith(source, "/") THEN 5
        ELSE IF isExternalLib(source, config.aliasPrefixes) THEN 6
        ELSE 7
      Normalized(normalizedBlock) == Branch(normalizedBlock, getImportSource(normalizedBlock))
  IN Normalized(Normalize(block))

\* getImportGroup; "" stands for null
getImportGroup(block, config) ==
  LET Group(branch) ==
        CASE branch = 0 -> ""
          [] branch = 1 -> IF isStyleImport(getImportSource(Normalize(block)),
                                            config.styleExtensions)
                           THEN "styles" ELSE "sideEffect"
          [] branch = 2 -> "styles"
          [] branch = 3 -> "react"
          [] branch = 4 -> "absolute"
          [] branch = 5 -> "relative"
          [] branch = 6 -> "libraries"
          [] branch = 7 -> "absolute"
  IN Group(getImportGroupBranch(block, config))

(***************************************************************************)
(* Import formatter (importFormatting.ts).                                 *)
(***************************************************************************)

\* found = FALSE stands for null
findNamedImportsRange(importClause) ==
  LET Range(openBraceIdx, closeBraceIdx) ==
        IF closeBraceIdx = -1 THEN [found |-> FALSE]
        ELSE [found |-> TRUE, openBraceIdx |-> openBraceIdx,
              closeBraceIdx |-> closeBraceIdx]
      Open(openBraceIdx) ==
        IF openBraceIdx = -1 THEN [found |-> FALSE]
        ELSE Range(openBraceIdx, findMatchingBraceIndex(importClause, openBraceIdx))
  IN Open(IndexOf(importClause, "{"))

\* s.replace(/,\s*$/, '')
StripTrailingComma(s) ==
  LET e == LastNonSpace(s, Len(s))
  IN IF At(s, e - 1) = "," THEN Slice(s, 0, e - 1) ELSE s

\* specifier.replace(/^type\s+/i, '').trim()
StripTypeMarker(specifier) ==
  Trim(IF ToLower(Slice(specifier, 0, 4)) = "type" /\ IsSpace(At(specifier, 4))
       THEN SliceFrom(specifier, FirstNonSpace(specifier, 4))
       ELSE specifier)

parseNamedImports(specifiersBlock) ==
  LET Specifiers(trimmedParts) ==
        [n \in 1..Len(trimmedParts) |->
           [raw |-> trimmedParts[n], sortKey |-> StripTypeMarker(trimmedParts[n])]]
      Trimmed(parts) == Specifiers(NonEmpty([n \in 1..Len(parts) |-> Trim(parts[n])]))
  IN Trimmed(Split(specifiersBlock, ","))

\* the sort key of a specifier with its type marker left in place
getNamedImportRawKey(specifier, mode) == specifier.raw

getNamedImportSortKey(specifier, mode) ==
  IF mode = "alphabetical" THEN specifier.sortKey ELSE specifier.raw

\* the comparator formatImportBlock sorts the named specifiers with
compareNamedImports(a, b, mode) ==
  compareStrings(getNamedImportSortKey(a, mode), getNamedImportSortKey(b, mode), mode)

\* the statement text built from its parts (both template literals of
\* formatImportBlock)
ImportText(importKeyword, clauseParts, parsedImport) ==
  importKeyword \o " " \o Join(NonEmpty(clauseParts), ", ") \o " from "
    \o parsedImport.quote \o parsedImport.source \o parsedImport.quote
    \o (IF parsedImport.hasSemicolon THEN ";" ELSE "")

\* singleLineResult.length >= config.maxLineLength
ReachesLineLength(singleLineResult, config) ==
  Len(singleLineResult) >= config.maxLineLength

\* singleLineResult.length > config.maxLineLength
ExceedsLineLength(singleLineResult, config) ==
  Len(singleLineResult) > config.maxLineLength

formatImportBlock(block, config) ==
  LET Text(parsedImport, clauseParts) ==
        ImportText(IF parsedImport.isTypeOnly THEN "import type" ELSE "import",
                   clauseParts, parsedImport)
      Formatted(parsedImport, beforeNamed, afterNamed, imports, namedImportsSingleLine) ==
        Text(parsedImport,
             <<beforeNamed,
               IF ExceedsLineLength(
                    Text(parsedImport, <<beforeNamed, namedImportsSingleLine, afterNamed>>),
                    config)
               THEN "{\n" \o config.indent \o Join(imports, ",\n" \o config.indent)
                      \o ",\n}"
               ELSE namedImportsSingleLine,
               afterNamed>>)
      Named(normalizedBlock, parsedImport, namedRange, imports) ==
        IF Len(imports) = 0 THEN normalizedBlock
        ELSE Formatted(parsedImport,
                       StripTrailingComma(
                         Trim(Slice(parsedImport.importClause, 0, namedRange.openBraceIdx))),
                       Trim(SliceFrom(parsedImport.importClause,
                                      namedRange.closeBraceIdx + 1)),
                       imports,
                       "{ " \o Join(imports, ", ") \o " }")
      Raw(sorted) == [n \in 1..Len(sorted) |-> sorted[n].raw]
      Sorted(named) ==
        SortBy(named, [i \in 1..Len(named), j \in 1..Len(named) |->
                         compareNamedImports(named[i], named[j], config.sortMode)])
      Ranged(normalizedBlock, parsedImport, namedRange) ==
        IF ~namedRange.found THEN normalizedBlock
        ELSE Named(normalizedBlock, parsedImport, namedRange,
                   Raw(Sorted(parseNamedImports(
                                Slice(parsedImport.importClause,
                                      namedRange.openBraceIdx + 1,
                                      namedRange.closeBraceIdx)))))
      Parsed(normalizedBlock, parsedImport) ==
        IF ~parsedImport.ok THEN block
        ELSE IF parsedImport.importClause = "" THEN block
        ELSE Ranged(normalizedBlock, parsedImport,
                    findNamedImportsRange(parsedImport.importClause))
      Normalized(normalizedBlock) ==
        Parsed(normalizedBlock, parseImportBlock(normalizedBlock))
  IN Normalized(Normalize(block))

(***************************************************************************)
(* Import merger (importFormatting.ts).  A null default or namespace       *)
(* binding is the empty string (the source tests truthiness); a merged     *)
(* entry without clause has hasClause = FALSE.                             *)
(***************************************************************************)

NotMergeable ==
  [defaultImport |-> "", namespaceImport |-> "", namedSpecifiers |-> <<>>,
   mergeable |-> FALSE]

\* indices of the commas of importClause outside braces
TopLevelCommas(importClause) ==
  {i \in 0..(Len(importClause) - 1) :
     At(importClause, i) = "," /\ Balance(Slice(importClause, 0, i), "{", "}") = 0}

RECURSIVE SplitAtCommas(_, _, _)
\* the parts of importClause from start on, cut at the commas
SplitAtCommas(importClause, commas, start) ==
  LET i == Least({k \in start..(Len(importClause) - 1) : k \in commas}, -1)
  IN IF i = -1 THEN <<Trim(SliceFrom(importClause, start))>>
     ELSE <<Trim(Slice(importClause, start, i))>>
          \o SplitAtCommas(importClause, commas, i + 1)

splitTopLevelImportClause(importClause) ==
  NonEmpty(SplitAtCommas(importClause, TopLevelCommas(importClause), 0))

RECURSIVE ParseSegments(_, _, _, _)
\* the for loop of parseImportClause over segments[n..]
ParseSegments(segments, n, defaultImport, namespaceImport) ==
  IF n > Len(segments)
  THEN [defaultImport |-> defaultImport, namespaceImport |-> namespaceImport,
        namedSpecifiers |-> <<>>, mergeable |-> TRUE]
  ELSE IF StartsWith(segments[n], "* as ")
       THEN IF namespaceImport # "" THEN NotMergeable
            ELSE ParseSegments(segments, n + 1, defaultImport, segments[n])
       ELSE IF defaultImport # "" THEN NotMergeable
            ELSE ParseSegments(segments, n + 1, segments[n], namespaceImport)

parseImportClause(importClause) ==
  LET Raw(named) == [n \in 1..Len(named) |-> named[n].raw]
      Named(trimmedClause, namedRange) ==
        [defaultImport |->
           StripTrailingComma(Trim(Slice(trimmedClause, 0, namedRange.openBraceIdx))),
         namespaceImport |-> "",
         namedSpecifiers |->
           Raw(parseNamedImports(Slice(trimmedClause, namedRange.openBraceIdx + 1,
                                       namedRange.closeBraceIdx))),
         mergeable |-> Trim(SliceFrom(trimmedClause, namedRange.closeBraceIdx + 1)) = ""]
      Segmented(segments) ==
        IF Len(segments) = 0 \/ Len(segments) > 2 THEN NotMergeable
        ELSE ParseSegments(segments, 1, "", "")
      Ranged(trimmedClause, namedRange) ==
        IF namedRange.found THEN Named(trimmedClause, namedRange)
        ELSE Segmented(splitTopLevelImportClause(trimmedClause))
      Trimmed(trimmedClause) == Ranged(trimmedClause, findNamedImportsRange(trimmedClause))
  IN Trimmed(Trim(importClause))

\* canMergeImportClauses without the test of conflicting default bindings
canMergeIgnoringDefaults(existingClause, incomingClause) ==
  LET hasConflictingNamespace ==
        /\ existingClause.namespaceImport # ""
        /\ incomingClause.namespaceImport # ""
        /\ existingClause.namespaceImport # incomingClause.namespaceImport
      combinesNamespaceWithNamed ==
        \/ existingClause.namespaceImport # "" /\ Len(incomingClause.namedSpecifiers) > 0
        \/ incomingClause.namespaceImport # "" /\ Len(existingClause.namedSpecifiers) > 0
  IN IF hasConflictingNamespace THEN FALSE
     ELSE ~combinesNamespaceWithNamed

canMergeImportClauses(existingClause, incomingClause) ==
  LET hasConflictingDefault ==
        /\ existingClause.defaultImport # ""
        /\ incomingClause.defaultImport # ""
        /\ existingClause.defaultImport # incomingClause.defaultImport
      hasConflictingNamespace ==
        /\ existingClause.namespaceImport # ""
        /\ incomingClause.namespaceImport # ""
        /\ existingClause.namespaceImport # incomingClause.namespaceImport
      combinesNamespaceWithNamed ==
        \/ existingClause.namespaceImport # "" /\ Len(incomingClause.namedSpecifiers) > 0
        \/ incomingClause.namespaceImport # "" /\ Len(existingClause.namedSpecifiers) > 0
  IN IF hasConflictingDefault THEN FALSE
     ELSE IF hasConflictingNamespace THEN FALSE
     ELSE ~combinesNamespaceWithNamed

\* each trimmed non-empty specifier kept at its first occurrence
dedupeNamedSpecifiers(specifiers) ==
  LET Kept(normalized) ==
        KeepUpTo(normalized,
                 {n \in 1..Len(normalized) :
                    /\ normalized[n] # ""
                    /\ \A m \in 1..(n - 1) : normalized[m] # normalized[n]},
                 Len(normalized))
  IN Kept([n \in 1..Len(specifiers) |-> Trim(specifiers[n])])

mergeParsedImportClauses(existingClause, incomingClause) ==
  [defaultImport |-> IF existingClause.defaultImport # ""
                     THEN existingClause.defaultImport ELSE incomingClause.defaultImport,
   namespaceImport |-> IF existingClause.namespaceImport # ""
                       THEN existingClause.namespaceImport
                       ELSE incomingClause.namespaceImport,
   namedSpecifiers |-> dedupeNamedSpecifiers(existingClause.namedSpecifiers
                                             \o incomingClause.namedSpecifiers),
   mergeable |-> TRUE]

formatMergedImportEntry(entry, config) ==
  LET semicolon == IF entry.hasSemicolon THEN ";" ELSE ""
      clauseParts ==
        (IF entry.clause.defaultImport # "" THEN <<entry.clause.defaultImport>> ELSE <<>>)
        \o (IF entry.clause.namespaceImport # "" THEN <<entry.clause.namespaceImport>>
            ELSE IF Len(entry.clause.namedSpecifiers) > 0
            THEN <<"{ " \o Join(entry.clause.namedSpecifiers, ", ") \o " }">>
            ELSE <<>>)
      importKeyword == IF entry.isTypeOnly THEN "import type" ELSE "import"
  IN IF ~entry.hasClause
     THEN "import " \o entry.quote \o entry.source \o entry.quote \o semicolon
     ELSE formatImportBlock(
            importKeyword \o " " \o Join(clauseParts, ", ") \o " from "
              \o entry.quote \o entry.source \o entry.quote \o semicolon,
            config)

\* the entry mergeImportStatements pushes for a parsed import
NewEntry(parsedImport, hasClause, clause) ==
  [source |-> parsedImport.source, quote |-> parsedImport.quote,
   isTypeOnly |-> parsedImport.isTypeOnly, hasSemicolon |-> parsedImport.hasSemicolon,
   hasClause |-> hasClause, clause |-> clause]

\* mergedEntries.find without the comparison of the type-only flags
FindMergeTargetOfAnyKind(mergedEntries, parsedImport, parsedClause) ==
  Least({n \in 1..Len(mergedEntries) :
           /\ mergedEntries[n].source = parsedImport.source
           /\ mergedEntries[n].hasClause
           /\ canMergeImportClauses(mergedEntries[n].clause, parsedClause)},
        0)

\* the merged entry an incoming clause is merged into (mergedEntries.find):
\* its index, or 0 when there is none
FindMergeTarget(mergedEntries, parsedImport, parsedClause) ==
  Least({n \in 1..Len(mergedEntries) :
           /\ mergedEntries[n].source = parsedImport.source
           /\ mergedEntries[n].isTypeOnly = parsedImport.isTypeOnly
           /\ mergedEntries[n].hasClause
           /\ canMergeImportClauses(mergedEntries[n].clause, parsedClause)},
        0)

\* One iteration of the for loop of mergeImportStatements on block: the
\* branch it takes and the state [mergedEntries, passthroughBlocks] after it.
\* The branches: "unparsed" (pushed to passthroughBlocks as it is),
\* "sideEffect" (no clause), "opaque" (clause not mergeable: formatted and
\* passed through), "push" (a new merged entry) and "merge" (merged into an
\* existing entry).
MergeBlock(state, block, config) ==
  LET Merged(parsedImport, parsedClause, target) ==
        IF target = 0
        THEN [branch |-> "push",
              state |-> [state EXCEPT !.mergedEntries =
                           Append(@, NewEntry(parsedImport, TRUE, parsedClause))]]
        ELSE [branch |-> "merge",
              state |-> [state EXCEPT
                           !.mergedEntries[target].hasSemicolon =
                              @ \/ parsedImport.hasSemicolon,
                           !.mergedEntries[target].clause =
                              mergeParsedImportClauses(@, parsedClause)]]
      WithClause(parsedImport, parsedClause) ==
        IF ~parsedClause.mergeable
        THEN [branch |-> "opaque",
              state |-> [state EXCEPT !.passthroughBlocks =
                           Append(@, formatImportBlock(block, config))]]
        ELSE Merged(parsedImport, parsedClause,
                    FindMergeTarget(state.mergedEntries, parsedImport, parsedClause))
      Parsed(parsedImport) ==
        IF ~parsedImport.ok
        THEN [branch |-> "unparsed",
              state |-> [state EXCEPT !.passthroughBlocks = Append(@, block)]]
        ELSE IF parsedImport.importClause = ""
        THEN [branch |-> "sideEffect",
              state |-> IF \E n \in 1..Len(state.mergedEntries) :
                             /\ state.mergedEntries[n].source = parsedImport.source
                             /\ ~state.mergedEntries[n].hasClause
                        THEN state
                        ELSE [state EXCEPT !.mergedEntries =
                                Append(@, NewEntry(parsedImport, FALSE, NotMergeable))]]
        ELSE WithClause(parsedImport, parseImportClause(parsedImport.importClause))
  IN Parsed(parseImportBlock(Normalize(block)))

RECURSIVE MergeBlocks(_, _, _, _)
\* the state after the blocks n.. of the for loop
MergeBlocks(state, blocks, n, config) ==
  IF n > Len(blocks) THEN state
  ELSE MergeBlocks(MergeBlock(state, blocks[n], config).state, blocks, n + 1, config)

\* the return statement of mergeImportStatements
MergeResult(state, config) ==
  [n \in 1..Len(state.mergedEntries) |->
     formatMergedImportEntry(state.mergedEntries[n], config)]
  \o state.passthroughBlocks

EmptyMerge == [mergedEntries |-> <<>>, passthroughBlocks |-> <<>>]

mergeImportStatements(blocks, config) ==
  MergeResult(MergeBlocks(EmptyMerge, blocks, 1, config), config)

(***************************************************************************)
(* Statement order (importFormatting.ts: compareImportStatements).         *)
(***************************************************************************)

getTypeImportRank(isTypeOnly) == IF isTypeOnly THEN 0 ELSE 1

getImportClauseRank(importClause) ==
  LET Rank(trimmed) ==
        IF trimmed = "" THEN 3
        ELSE IF Includes(trimmed, "{") THEN (IF StartsWith(trimmed, "{") THEN 1 ELSE 0)
        ELSE 0
  IN IF importClause = "" THEN 3 ELSE Rank(Trim(importClause))

compareImportClausesAlphabetically(a, b) ==
  LET Ranked(rankA, rankB) ==
        IF rankA # rankB THEN rankA - rankB ELSE LocaleCompare(a, b)
  IN Ranked(getImportClauseRank(a), getImportClauseRank(b))

compareImportStatements(a, b, mode) ==
  LET BySource(parsedA, parsedB, sourceCompare) ==
        IF sourceCompare # 0 THEN sourceCompare
        ELSE IF parsedA.isTypeOnly # parsedB.isTypeOnly
        THEN getTypeImportRank(parsedA.isTypeOnly) - getTypeImportRank(parsedB.isTypeOnly)
        ELSE compareImportClausesAlphabetically(parsedA.importClause,
                                                parsedB.importClause)
      Parsed(parsedA, parsedB) ==
        IF (~parsedA.ok \/ ~parsedB.ok) \/ mode # "alphabetical"
        THEN compareStrings(a, b, mode)
        ELSE BySource(parsedA, parsedB, LocaleCompare(parsedA.source, parsedB.source))
  IN Parsed(parseImportBlock(Normalize(a)), parseImportBlock(Normalize(b)))

(***************************************************************************)
(* Block collectors (blockCollectors.ts).  Line indices are 0-based as in  *)
(* the source: line idx of lines is lines[idx + 1].  A null result is      *)
(* [ok |-> FALSE].                                                         *)
(***************************************************************************)

LineAt(lines, idx) == lines[idx + 1]

NoBlock == [ok |-> FALSE, block |-> "", nextIdx |-> 0]

isCompleteImport(block) ==
  LET TypeTail(normalized, afterImport, afterType) ==
        afterType > afterImport + 4 /\ QuotedTail(normalized, afterType, FALSE).ok
      TypeForm(normalized, afterImport) ==
        /\ StartsWith(normalized, "import")
        /\ afterImport > 6
        /\ Slice(normalized, afterImport, afterImport + 4) = "type"
        /\ TypeTail(normalized, afterImport, FirstNonSpace(normalized, afterImport + 4))
      Complete(normalized) ==
        \/ TypeForm(normalized, FirstNonSpace(normalized, 6))
        \/ isSideEffectImport(normalized)
        \/ /\ StartsWith(normalized, "import")
           /\ ~IsWordChar(At(normalized, 6))
           /\ \E p \in 6..(Len(normalized) - 1) :
                /\ ~IsWordChar(At(normalized, p - 1))
                /\ FromAt(normalized, p, FALSE)
  IN Complete(Normalize(block))

RECURSIVE CollectImportFrom(_, _, _)
\* the while loop of collectImportBlock with idx lines taken so far
CollectImportFrom(lines, startIdx, idx) ==
  LET Taken(block) ==
        IF isCompleteImport(block)
        THEN [ok |-> TRUE, block |-> block, nextIdx |-> idx + 1]
        ELSE IF idx + 1 < Len(lines) /\ Trim(LineAt(lines, idx + 1)) = ""
        THEN NoBlock
        ELSE CollectImportFrom(lines, startIdx, idx + 1)
  IN IF idx >= Len(lines) THEN NoBlock
     ELSE Taken(Trim(Join(SubSeq(lines, startIdx + 1, idx + 1), "\n")))

collectImportBlock(lines, startIdx) == CollectImportFrom(lines, startIdx, startIdx)

isFunctionLikeStart(line) ==
  \/ StartsWith(line, "export const ")
  \/ StartsWith(line, "const ")
  \/ StartsWith(line, "export function ")
  \/ StartsWith(line, "function ")
  \/ StartsWith(line, "export default ")
  \/ StartsWith(line, "export {")

RECURSIVE CollectBraceFrom(_, _, _, _, _)
\* the while loop of collectBraceBlock at line idx
CollectBraceFrom(lines, startIdx, idx, braceCount, foundOpenBrace) ==
  IF idx >= Len(lines) THEN NoBlock
  ELSE LET currentLine == LineAt(lines, idx)
           count == braceCount + Balance(currentLine, "{", "}")
           found == foundOpenBrace \/ Includes(currentLine, "{")
       IN IF found /\ count = 0
          THEN [ok |-> TRUE,
                block |-> Trim(Concat([n \in 1..(idx + 1 - startIdx) |->
                                         lines[startIdx + n] \o "\n"])),
                nextIdx |-> idx + 1]
          ELSE CollectBraceFrom(lines, startIdx, idx + 1, count, found)

collectBraceBlock(lines, startIdx) == CollectBraceFrom(lines, startIdx, startIdx, 0, FALSE)

collectFunctionBlock(lines, startIdx) ==
  LET firstLine == Trim(LineAt(lines, startIdx))
  IN IF EndsWith(firstLine, ";")
     THEN [ok |-> TRUE, block |-> LineAt(lines, startIdx), nextIdx |-> startIdx + 1]
     ELSE IF ~Includes(firstLine, "{") THEN NoBlock
     ELSE collectBraceBlock(lines, startIdx)

RECURSIVE CollectTypeFrom(_, _, _, _, _, _)
\* the while loop of collectTypeBlock at line idx
CollectTypeFrom(lines, startIdx, idx, braceCount, parenCount, bracketCount) ==
  LET Terminated(trimmed) == EndsWith(trimmed, ";") \/ EndsWith(trimmed, "}")
      Taken(braces, parens, brackets, terminated) ==
        IF braces <= 0 /\ parens <= 0 /\ brackets <= 0 /\ terminated
        THEN [ok |-> TRUE,
              block |-> Trim(Join(SubSeq(lines, startIdx + 1, idx + 1), "\n")),
              nextIdx |-> idx + 1]
        ELSE CollectTypeFrom(lines, startIdx, idx + 1, braces, parens, brackets)
      Read(currentLine) ==
        Taken(braceCount + Balance(currentLine, "{", "}"),
              parenCount + Balance(currentLine, "(", ")"),
              bracketCount + Balance(currentLine, "[", "]"),
              Terminated(Trim(currentLine)))
  IN IF idx >= Len(lines) THEN NoBlock ELSE Read(LineAt(lines, idx))

collectTypeBlock(lines, startIdx) == CollectTypeFrom(lines, startIdx, startIdx, 0, 0, 0)

(***************************************************************************)
(* Configuration (types.ts, config.ts).                                    *)
(***************************************************************************)

DEFAULT_GROUP_ORDER ==
  <<"directives", "react", "libraries", "absolute", "relative", "sideEffect",
    "styles", "interfaces", "comments", "functions">>

DEFAULT_GROUP_ORDER_WITH_SEPARATORS ==
  <<"directives", "spacing", "react", "spacing", "libraries", "spacing",
    "absolute", "spacing", "relative", "spacing", "sideEffect", "spacing",
    "styles", "spacing", "interfaces", "spacing", "comments", "spacing",
    "functions">>

GroupKey ==
  {"directives", "react", "libraries", "absolute", "relative", "sideEffect",
   "styles", "interfaces", "comments", "functions"}

Separator == "__separator__"

RECURSIVE NormalizeGroupsFrom(_, _, _)
\* the first for loop of normalizeGroupsOrder over groupsOrder[n..]
NormalizeGroupsFrom(groupsOrder, n, result) ==
  IF n > Len(groupsOrder) THEN result
  ELSE LET trimmed == Trim(groupsOrder[n])
           used == \E m \in 1..Len(result) : result[m] = trimmed
       IN IF trimmed = "spacing"
          THEN NormalizeGroupsFrom(groupsOrder, n + 1,
                 IF Len(result) > 0 /\ result[Len(result)] # Separator
                 THEN Append(result, Separator) ELSE result)
          ELSE NormalizeGroupsFrom(groupsOrder, n + 1,
                 IF trimmed \in GroupKey /\ ~used THEN Append(result, trimmed) ELSE result)

\* the second for loop of normalizeGroupsOrder: the default groups not used
AppendUnusedGroups(result) ==
  result \o KeepUpTo(DEFAULT_GROUP_ORDER,
                     {n \in 1..Len(DEFAULT_GROUP_ORDER) :
                        \A m \in 1..Len(result) : result[m] # DEFAULT_GROUP_ORDER[n]},
                     Len(DEFAULT_GROUP_ORDER))

\* the list with its trailing separators left in place
KeepSeparators(result) == result

\* the while loop of normalizeGroupsOrder: trailing separators popped
PopSeparators(result) ==
  SubSeq(result, 1,
         Least({e \in 0..Len(result) :
                  \A m \in (e + 1)..Len(result) : result[m] = Separator},
               Len(result)))

normalizeGroupsOrder(groupsOrder) ==
  PopSeparators(AppendUnusedGroups(NormalizeGroupsFrom(groupsOrder, 1, <<>>)))

normalizeStyleExtensions(extensions) ==
  LET ext == [n \in 1..Len(extensions) |->
                LET trimmed == ToLower(Trim(extensions[n]))
                IN IF trimmed = "" THEN ""
                   ELSE IF StartsWith(trimmed, ".") THEN trimmed ELSE "." \o trimmed]
      keep == {n \in 1..Len(ext) : ext[n] # "" /\ \A m \in 1..(n - 1) : ext[m] # ext[n]}
      Kept(k) == CHOOSE n \in keep : Cardinality({m \in keep : m < n}) = k - 1
  IN IF keep = {} THEN <<".css", ".scss", ".sass", ".less">>
     ELSE [k \in 1..Cardinality(keep) |-> ext[Kept(k)]]

\* getSortConfig over the sortImports settings of the workspace;
\* mergeDuplicateImports is the documented setting the provider reads
getSortConfig(settings) ==
  [maxLineLength |-> settings.maxLineLength,
   indent |-> settings.indentSize,
   aliasPrefixes |-> settings.aliasPrefixes,
   sortMode |-> settings.sortMode,
   mergeDuplicateImports |-> settings.mergeDuplicateImports,
   styleExtensions |-> normalizeStyleExtensions(settings.styleExtensions),
   groupsOrder |-> normalizeGroupsOrder(settings.groupsOrder)]

(***************************************************************************)
(* Provider (sortImportsProvider.ts).  A section part is                   *)
(* [type |-> "raw", value, groups] or [type |-> "configured", value,       *)
(* groups]; the null currentConfiguredPart is NoPart.                      *)
(***************************************************************************)

createEmptyGroups == [g \in GroupKey |-> <<>>]

NoPart == [type |-> "null", value |-> "", groups |-> createEmptyGroups]

RawPart(value) == [type |-> "raw", value |-> value, groups |-> createEmptyGroups]

getConfiguredGroups(groupsOrder) ==
  {groupsOrder[n] : n \in {m \in 1..Len(groupsOrder) : groupsOrder[m] # Separator}}

\* pushSectionEntry and pushCommentEntry: the section parts and the current
\* configured part after entry is pushed to group
PushEntry(sectionParts, currentConfiguredPart, configuredGroups, group, entry, raw) ==
  LET configuredPart ==
        IF currentConfiguredPart.type = "null"
        THEN [type |-> "configured", value |-> "", groups |-> createEmptyGroups]
        ELSE currentConfiguredPart
  IN IF group \notin configuredGroups
     THEN [sectionParts |->
             (IF currentConfiguredPart.type # "null"
              THEN Append(sectionParts, currentConfiguredPart) ELSE sectionParts)
             \o <<RawPart(raw)>>,
           currentConfiguredPart |-> NoPart]
     ELSE [sectionParts |-> sectionParts,
           currentConfiguredPart |->
             [configuredPart EXCEPT !.groups[group] = Append(@, entry)]]

pushSectionEntry(sectionParts, currentConfiguredPart, configuredGroups, group, value) ==
  PushEntry(sectionParts, currentConfiguredPart, configuredGroups, group, value, value)

pushCommentEntry(sectionParts, currentConfiguredPart, configuredGroups, line, originalIndex) ==
  PushEntry(sectionParts, currentConfiguredPart, configuredGroups, "comments",
            [line |-> line, originalIndex |-> originalIndex], line)

\* /^['"](use (?:client|server))['"]\.?;?$/i
IsDirective(line) ==
  /\ At(line, 0) \in Quotes
  /\ ToLower(Slice(line, 1, 11)) \in {"use client", "use server"}
  /\ At(line, 11) \in Quotes
  /\ SliceFrom(line, 12) \in {"", ".", ";", ".;"}

\* the branch of the walk loop of processContent that the trimmed line takes
LineKind(line) ==
  IF line = "" THEN "blank"
  ELSE IF IsDirective(line) THEN "directive"
  ELSE IF StartsWith(line, "//") \/ StartsWith(line, "/*") \/ StartsWith(line, "*")
  THEN "comment"
  ELSE IF StartsWith(line, "interface ") \/ StartsWith(line, "export interface ")
  THEN "interface"
  ELSE IF StartsWith(line, "type ") \/ StartsWith(line, "export type ") THEN "type"
  ELSE IF isFunctionLikeStart(line) THEN "function"
  ELSE IF StartsWith(line, "import") THEN "import"
  ELSE "other"

\* the statements of a group as prepared, left in the order they were
\* collected in
PreparedImports(group, items, config) ==
  IF config.mergeDuplicateImports THEN mergeImportStatements(items, config) ELSE items

\* prepareImports(items).sort(compare) of getGroupBlock: the statements a
\* group of imports is rendered as
SortedImports(group, items, config) ==
  LET sortByMode(prepared) ==
        [i \in 1..Len(prepared), j \in 1..Len(prepared) |->
           IF config.sortMode = "alphabetical"
           THEN compareImportStatements(prepared[i], prepared[j], config.sortMode)
           ELSE compareStrings(prepared[i], prepared[j], config.sortMode)]
      sortByLength(prepared) ==
        [i \in 1..Len(prepared), j \in 1..Len(prepared) |->
           compareStrings(prepared[i], prepared[j], "length")]
      Sorted(prepared) ==
        SortBy(prepared,
               IF group = "react" /\ config.sortMode # "alphabetical"
               THEN sortByLength(prepared) ELSE sortByMode(prepared))
  IN Sorted(IF config.mergeDuplicateImports
            THEN mergeImportStatements(items, config) ELSE items)

ImportGroupKey == {"react", "libraries", "absolute", "relative", "sideEffect", "styles"}

\* the comments of a part sorted by their text, as the imports are
SortedCommentsByText(comments) ==
  LET Lines(sorted) == [n \in 1..Len(sorted) |-> sorted[n].line]
  IN Lines(SortBy(comments,
                  [i \in 1..Len(comments), j \in 1..Len(comments) |->
                     compareStrings(comments[i].line, comments[j].line, "alphabetical")]))

\* the comments of a part by originalIndex
SortedComments(comments) ==
  LET Lines(sorted) == [n \in 1..Len(sorted) |-> sorted[n].line]
  IN Lines(SortBy(comments,
                  [i \in 1..Len(comments), j \in 1..Len(comments) |->
                     comments[i].originalIndex - comments[j].originalIndex]))

\* getGroupBlock; "" stands for null
getGroupBlock(group, groups, config) ==
  IF Len(groups[group]) = 0 THEN ""
  ELSE IF group \in ImportGroupKey
  THEN Join(SortedImports(group, groups[group], config), "\n")
  ELSE IF group = "comments" THEN Join(SortedComments(groups.comments), "\n")
  ELSE IF group = "functions" THEN Join(groups.functions, "\n\n")
  ELSE Join(groups[group], "\n")

RECURSIVE BuildPartFrom(_, _, _, _, _)
\* the for loop of buildConfiguredPart over config.groupsOrder[n..]
BuildPartFrom(groups, config, n, parts, pendingBlankLine) ==
  LET Push(block) ==
        IF block = ""
        THEN BuildPartFrom(groups, config, n + 1, parts, pendingBlankLine)
        ELSE BuildPartFrom(groups, config, n + 1,
               parts \o (IF Len(parts) > 0
                         THEN <<IF pendingBlankLine THEN "\n\n" ELSE "\n">> ELSE <<>>)
                     \o <<block>>,
               FALSE)
  IN IF n > Len(config.groupsOrder) THEN Concat(parts)
     ELSE IF config.groupsOrder[n] = Separator
     THEN BuildPartFrom(groups, config, n + 1, parts, Len(parts) > 0)
     ELSE Push(getGroupBlock(config.groupsOrder[n], groups, config))

RECURSIVE BuildPartStickyFrom(_, _, _, _, _)
\* the loop of buildConfiguredPart with pendingBlankLine never reset
BuildPartStickyFrom(groups, config, n, parts, pendingBlankLine) ==
  LET Push(block) ==
        IF block = ""
        THEN BuildPartStickyFrom(groups, config, n + 1, parts, pendingBlankLine)
        ELSE BuildPartStickyFrom(groups, config, n + 1,
               parts \o (IF Len(parts) > 0
                         THEN <<IF pendingBlankLine THEN "\n\n" ELSE "\n">> ELSE <<>>)
                     \o <<block>>,
               pendingBlankLine)
  IN IF n > Len(config.groupsOrder) THEN Concat(parts)
     ELSE IF config.groupsOrder[n] = Separator
     THEN BuildPartStickyFrom(groups, config, n + 1, parts, Len(parts) > 0)
     ELSE Push(getGroupBlock(config.groupsOrder[n], groups, config))

buildPartWithStickyBlankLine(groups, config) ==
  BuildPartStickyFrom(groups, config, 1, <<>>, FALSE)

buildConfiguredPart(groups, config) == BuildPartFrom(groups, config, 1, <<>>, FALSE)

RECURSIVE ReduceParts(_, _, _, _)
\* renderedParts.reduce(...) of processContent from index n (1-based) on
ReduceParts(renderedParts, sectionParts, n, result) ==
  IF n > Len(renderedParts) THEN result
  ELSE IF n = 1 THEN ReduceParts(renderedParts, sectionParts, 2, renderedParts[1])
  ELSE LET separator == IF /\ sectionParts[n - 1].type = "raw"
                           /\ sectionParts[n].type = "raw"
                        THEN "\n" ELSE "\n\n"
       IN ReduceParts(renderedParts, sectionParts, n + 1,
                      result \o separator \o renderedParts[n])

\* lines.slice(idx).join('\n')
Remainder(lines, idx) == Join(SubSeq(lines, idx + 1, Len(lines)), "\n")

\* the section text of processContent (lines 190-211)
RenderSection(sectionParts, currentConfiguredPart, config) ==
  LET allParts == IF currentConfiguredPart.type # "null"
                  THEN Append(sectionParts, currentConfiguredPart) ELSE sectionParts
      renderedParts ==
        NonEmpty([n \in 1..Len(allParts) |->
                    IF allParts[n].type = "raw" THEN allParts[n].value
                    ELSE buildConfiguredPart(allParts[n].groups, config)])
  IN ReduceParts(renderedParts, allParts, 1, "")

\* the tail of processContent returning the empty text when there is
\* neither a section nor a remainder
RenderResultOrNothing(section, rest) ==
  IF section = "" /\ rest = "" THEN ""
  ELSE IF section = "" THEN rest \o "\n"
  ELSE IF rest = "" THEN section \o "\n"
  ELSE Trim(CollapseNewlines(section \o "\n\n" \o rest)) \o "\n"

\* the tail of processContent (lines 194, 213-225)
RenderResult(section, rest) ==
  IF section = "" /\ rest = "" THEN "\n"
  ELSE IF section = "" THEN rest \o "\n"
  ELSE IF rest = "" THEN section \o "\n"
  ELSE Trim(CollapseNewlines(section \o "\n\n" \o rest)) \o "\n"

\* The locals of processContent are the record w = [idx, sectionParts,
\* currentConfiguredPart, commentIndex, stop, units]: stop is set when the
\* walk loop breaks, and units is the history of the units collected, each
\* [kind, group, block, value] (the collected text and the value pushed).

\* the locals after a unit has been collected with the line index left
\* where it was
AdvanceInPlace(w, nextIdx, pushed, unit) ==
  [idx |-> w.idx,
   sectionParts |-> pushed.sectionParts,
   currentConfiguredPart |-> pushed.currentConfiguredPart,
   commentIndex |-> w.commentIndex + (IF unit.kind = "comment" THEN 1 ELSE 0),
   stop |-> FALSE,
   units |-> Append(w.units, unit)]

\* the locals after a unit is pushed and the walk moves to line nextIdx
Advance(w, nextIdx, pushed, unit) ==
  [idx |-> nextIdx,
   sectionParts |-> pushed.sectionParts,
   currentConfiguredPart |-> pushed.currentConfiguredPart,
   commentIndex |-> w.commentIndex + (IF unit.kind = "comment" THEN 1 ELSE 0),
   stop |-> FALSE,
   units |-> Append(w.units, unit)]

\* break
Break(w) == [w EXCEPT !.stop = TRUE]

\* processContent lines 80-83
BlankStep(w) == [w EXCEPT !.idx = @ + 1]

\* processContent lines 85-96
DirectiveStep(lines, w, config) ==
  LET Pushed(line, value) ==
        Advance(w, w.idx + 1,
                pushSectionEntry(w.sectionParts, w.currentConfiguredPart,
                                 getConfiguredGroups(config.groupsOrder),
                                 "directives", value),
                [kind |-> "directive", group |-> "directives",
                 block |-> line, value |-> value])
  IN Pushed(LineAt(lines, w.idx),
            "'" \o Slice(Trim(LineAt(lines, w.idx)), 1, 11) \o "';")

\* processContent lines 98-109
CommentStep(lines, w, config) ==
  LET Pushed(line) ==
        Advance(w, w.idx + 1,
                pushCommentEntry(w.sectionParts, w.currentConfiguredPart,
                                 getConfiguredGroups(config.groupsOrder),
                                 line, w.commentIndex),
                [kind |-> "comment", group |-> "comments",
                 block |-> line, value |-> line])
  IN Pushed(LineAt(lines, w.idx))

\* processContent lines 111-126 (kind "interface", collected by
\* collectBraceBlock) and 128-143 (kind "type", collected by collectTypeBlock)
DeclarationStep(w, config, kind, collected) ==
  LET Pushed(value) ==
        Advance(w, collected.nextIdx,
                pushSectionEntry(w.sectionParts, w.currentConfiguredPart,
                                 getConfiguredGroups(config.groupsOrder),
                                 "interfaces", value),
                [kind |-> kind, group |-> "interfaces",
                 block |-> collected.block, value |-> value])
  IN IF ~collected.ok THEN Break(w)
     ELSE Pushed(sortTypeMembers(collected.block, config))

\* processContent lines 145-160
FunctionStep(lines, w, config) ==
  LET Collected(functionResult) ==
        IF ~functionResult.ok THEN Break(w)
        ELSE Advance(w, functionResult.nextIdx,
                     pushSectionEntry(w.sectionParts, w.currentConfiguredPart,
                                      getConfiguredGroups(config.groupsOrder),
                                      "functions", functionResult.block),
                     [kind |-> "function", group |-> "functions",
                      block |-> functionResult.block, value |-> functionResult.block])
  IN Collected(collectFunctionBlock(lines, w.idx))

\* processContent lines 166-187
ImportStep(lines, w, config) ==
  LET Pushed(importResult, importGroup, blockValue) ==
        Advance(w, importResult.nextIdx,
                pushSectionEntry(w.sectionParts, w.currentConfiguredPart,
                                 getConfiguredGroups(config.groupsOrder),
                                 importGroup, blockValue),
                [kind |-> "import", group |-> importGroup,
                 block |-> importResult.block, value |-> blockValue])
      Grouped(importResult, importGroup) ==
        IF importGroup = "" THEN Break(w)
        ELSE Pushed(importResult, importGroup,
                    IF importGroup \in getConfiguredGroups(config.groupsOrder)
                    THEN formatImportBlock(importResult.block, config)
                    ELSE importResult.block)
      Collected(importResult) ==
        IF ~importResult.ok THEN Break(w)
        ELSE Grouped(importResult, getImportGroup(importResult.block, config))
  IN Collected(collectImportBlock(lines, w.idx))

\* one iteration of the walk loop of processContent at line w.idx
WalkStep(lines, w, config) ==
  LET Taken(kind) ==
        CASE kind = "blank" -> BlankStep(w)
          [] kind = "directive" -> DirectiveStep(lines, w, config)
          [] kind = "comment" -> CommentStep(lines, w, config)
          [] kind = "interface" ->
               DeclarationStep(w, config, kind, collectBraceBlock(lines, w.idx))
          [] kind = "type" ->
               DeclarationStep(w, config, kind, collectTypeBlock(lines, w.idx))
          [] kind = "function" -> FunctionStep(lines, w, config)
          [] kind = "import" -> ImportStep(lines, w, config)
          [] kind = "other" -> Break(w)
  IN Taken(LineKind(Trim(LineAt(lines, w.idx))))

\* the locals of processContent when the walk loop is entered
WalkStart ==
  [idx |-> 0, sectionParts |-> <<>>, currentConfiguredPart |-> NoPart,
   commentIndex |-> 0, stop |-> FALSE, units |-> <<>>]

RECURSIVE WalkFrom(_, _, _)
\* the locals when the walk loop is left
WalkFrom(lines, w, config) ==
  IF w.idx >= Len(lines) \/ w.stop THEN w
  ELSE WalkFrom(lines, WalkStep(lines, w, config), config)

\* processContent (lines 190-225) once the walk loop is left with locals w
RenderWalk(lines, w, config) ==
  RenderResult(RenderSection(w.sectionParts, w.currentConfiguredPart, config),
               Trim(Remainder(lines, w.idx)))

processContent(content, config) ==
  LET lines == SplitLines(content)
  IN RenderWalk(lines, WalkFrom(lines, WalkStart, config), config)

(***************************************************************************)
(* The extension as a state machine: a document is sorted by               *)
(* getSortedContent (one step per iteration of the walk loop of            *)
(* processContent), the edit is applied, and the command is run again.     *)
(***************************************************************************)

\* units a document starts with
MaxUnits == 2

\* times the sorted content is applied and the command run again
MaxRuns == 1

\* the maxLineLength setting of the explored workspaces
LineLimit == 30

\* leading-region units of the explored documents
Chunks ==
  <<"import b, { z, a } from 'lib';",
    "import { kappa, eta } from 'lib';",
    "// note",
    "/* head */",
    "const k = 1;",
    "interface A {\n  b: { y: string; x: number };\n  a: string;\n}">>

\* texts the explored documents end with
Rests == <<"", "run();\n\n\nend();\n">>

\* sortImports.groupsOrder settings of the explored workspaces
GroupsOrders ==
  <<DEFAULT_GROUP_ORDER_WITH_SEPARATORS,
    <<"functions", "spacing", "libraries", "react">>,
    <<"comments", "absolute", "libraries", "spacing", "interfaces">> >>

\* the settings of a workspace; the others are left at their defaults
WorkspaceSettings(maxLineLength, sortMode, mergeDuplicateImports, groupsOrder) ==
  [maxLineLength |-> maxLineLength,
   indentSize |-> "  ",
   aliasPrefixes |-> <<"@/", "~/", "src/">>,
   sortMode |-> sortMode,
   mergeDuplicateImports |-> mergeDuplicateImports,
   styleExtensions |-> <<".css", ".scss", ".sass", ".less">>,
   groupsOrder |-> groupsOrder]

SortModes == {"length", "alphabetical"}

\* the settings of the explored workspaces
Settings ==
  {WorkspaceSettings(LineLimit, mode, TRUE, GroupsOrders[g]) :
     mode \in SortModes, g \in 1..Len(GroupsOrders)}

\* the documents made of up to MaxUnits chunks, one per line group, and a rest
Documents ==
  {Concat([n \in 1..Len(units) |-> Chunks[units[n]] \o "\n"]) \o Rests[r] :
     units \in UNION {[1..n -> 1..Len(Chunks)] : n \in 0..MaxUnits},
     r \in 1..Len(Rests)}

\* the Before text of the example of the README
ReadmeBefore ==
  "import './styles.css';\n"
  \o "import { Component } from 'react';\n"
  \o "// Comment about utils\n"
  \o "import { someUtilFunction, anotherFunction } from '../utils/helpers';\n"
  \o "import axios from 'axios';\n"
  \o "import { getProfile } from '@/services/api';\n"
  \o "/* Comment about API service */\n"
  \o "import { apiCall } from '@/services/api';\n"
  \o "import lodash from 'lodash';\n"
  \o "\n"
  \o "interface User {\n"
  \o "  verylongpropertynamefortest: string;\n"
  \o "  id: number;\n"
  \o "  name: string;\n"
  \o "  email: string;\n"
  \o "  age: number;\n"
  \o "}\n"

\* further documents, sorted under the default group order
Examples ==
  {ReadmeBefore,
   "type T = {\n  bb: number;\n  a: string\n};\n",
   "import type {} from '@/x'\n",
   "\"use client\"\nimport { k } from 'lib';\nimport b, { z, a } from 'lib';\n'use server';\n",
   "\n\n",
   "function f() {\n  g();\n\n\n  h();\n}\nimport a from 'lib';\nconst k = 1;\n",
   "export const k = 1;\n// note\nexport default f;\ninterface A {}\nrun();\n",
   "function f() {\n  g();\n\n\n  h();\n}\nrun();\n",
   "import a from 'lib';\nrun();\n\"use client\";\n"}

\* the default of the maxLineLength setting
DefaultMaxLineLength == 100

\* the settings the examples are sorted under: the defaults, and the
\* defaults with the line limit of the explored workspaces, with and
\* without the merging of duplicate imports
ExampleSettings ==
  {WorkspaceSettings(DefaultMaxLineLength, "length", TRUE,
                     DEFAULT_GROUP_ORDER_WITH_SEPARATORS)}
  \cup {WorkspaceSettings(LineLimit, "length", merge, DEFAULT_GROUP_ORDER_WITH_SEPARATORS) :
          merge \in BOOLEAN}

VARIABLES
  document,               \* the text of the document in the editor
  settings,               \* the sortImports settings of the workspace
  pc,                     \* "idle", "walk" (inside processContent), "done"
  config,                 \* processContent: the SortConfig it was called with
  lines,                  \* processContent: content.split(/\r?\n/)
  idx,                    \* processContent: the line index of the walk
  sectionParts,           \* processContent: the section parts pushed so far
  currentConfiguredPart,  \* processContent: the open configured part
  commentIndex,           \* processContent: comments seen so far
  stopped,                \* processContent: the walk loop was left by break
  units,                  \* history: the units collected by this run
  result,                 \* sortedContent of the last run
  runs,                   \* edits applied so far
  outcome,                \* what the last command produced of the sorted content
  project,                \* the uri of the document and the project around it
  visitedConfigPaths,     \* resolveTypeScriptAliasPrefixes: visitedConfigPaths
  pendingConfigPaths,     \* the calls of collectTypeScriptAliases still to be made
  parsedConfigPaths,      \* history: the paths parseJsoncFile was called on
  blocks,                 \* mergeImportStatements: its argument
  position,               \* mergeImportStatements: blocks taken by the loop
  mergedEntries,          \* mergeImportStatements: mergedEntries
  passthroughBlocks,      \* mergeImportStatements: passthroughBlocks
  output                  \* what the function called on blocks returned

vars ==
  <<document, settings, pc, config, lines, idx, sectionParts, currentConfiguredPart,
    commentIndex, stopped, units, result, runs, outcome, project,
    visitedConfigPaths, pendingConfigPaths, parsedConfigPaths,
    blocks, position, mergedEntries, passthroughBlocks, output>>

\* the variables of a call of an import function on its own
callVars == <<blocks, position, mergedEntries, passthroughBlocks, output>>

\* the variables of the detection of alias prefixes in the project
detectVars == <<visitedConfigPaths, pendingConfigPaths, parsedConfigPaths>>

\* the variables of the document pipeline but config
documentVars ==
  <<document, settings, lines, idx, sectionParts, currentConfiguredPart,
    commentIndex, stopped, units, result, runs, outcome, project,
    visitedConfigPaths, pendingConfigPaths, parsedConfigPaths>>

walkVars == <<config, lines, idx, sectionParts, currentConfiguredPart, commentIndex, stopped, units>>

\* a document that is a file of a project without detected alias prefixes,
\* alias detection being off
NoProject ==
  [documentUri |-> [defined |-> TRUE, scheme |-> "file"],
   detectFromProjectConfig |-> FALSE, projectRoot |-> TRUE, detectedPrefixes |-> <<>>]

\* no configuration file of the project has been looked at
NoDetection ==
  /\ visitedConfigPaths = {}
  /\ pendingConfigPaths = <<>>
  /\ parsedConfigPaths = <<>>

\* no command has concluded on the sorted content
NoOutcome ==
  [command |-> "none", content |-> "", edits |-> <<>>, didChange |-> FALSE,
   preview |-> <<>>]

\* the locals of processContent as WalkStep takes them
Locals ==
  [idx |-> idx, sectionParts |-> sectionParts,
   currentConfiguredPart |-> currentConfiguredPart, commentIndex |-> commentIndex,
   stop |-> stopped, units |-> units]

Init ==
  /\ \E opened \in (Documents \X Settings) \cup (Examples \X ExampleSettings) :
       document = opened[1] /\ settings = opened[2]
  /\ pc = "idle"
  /\ config = getSortConfig(settings)
  /\ lines = <<>>
  /\ idx = 0
  /\ sectionParts = <<>>
  /\ currentConfiguredPart = NoPart
  /\ commentIndex = 0
  /\ stopped = FALSE
  /\ units = <<>>
  /\ result = ""
  /\ runs = 0
  /\ outcome = NoOutcome
  /\ project = NoProject
  /\ NoDetection
  /\ blocks = <<>>
  /\ position = 0
  /\ mergedEntries = <<>>
  /\ passthroughBlocks = <<>>
  /\ output = <<>>

\* getSortedContent, the first call of sortImports, getFormattingEdits and
\* the preview command: processContent is entered with the document's text
GetSortedContent ==
  /\ pc = "idle"
  /\ pc' = "walk"
  /\ config' = getSortConfig(settings)
  /\ lines' = SplitLines(document)
  /\ idx' = WalkStart.idx
  /\ sectionParts' = WalkStart.sectionParts
  /\ currentConfiguredPart' = WalkStart.currentConfiguredPart
  /\ commentIndex' = WalkStart.commentIndex
  /\ stopped' = WalkStart.stop
  /\ units' = WalkStart.units
  /\ result' = ""
  /\ outcome' = NoOutcome
  /\ UNCHANGED <<document, settings, runs, project, detectVars, callVars>>

\* the branch of the walk loop the current line takes
CurrentKind == LineKind(Trim(LineAt(lines, idx)))

\* one iteration of the walk loop on a line of the given kind leaves the
\* locals w
Iterate(kind, w) ==
  /\ pc = "walk"
  /\ ~stopped
  /\ idx < Len(lines)
  /\ CurrentKind = kind
  /\ idx' = w.idx
  /\ sectionParts' = w.sectionParts
  /\ currentConfiguredPart' = w.currentConfiguredPart
  /\ commentIndex' = w.commentIndex
  /\ stopped' = w.stop
  /\ units' = w.units
  /\ UNCHANGED <<document, settings, pc, config, lines, result, runs, outcome, project, detectVars,
                 callVars>>

SkipBlank == Iterate("blank", BlankStep(Locals))

Directive == Iterate("directive", DirectiveStep(lines, Locals, config))

Comment == Iterate("comment", CommentStep(lines, Locals, config))

Interface ==
  Iterate("interface",
          DeclarationStep(Locals, config, "interface", collectBraceBlock(lines, idx)))

TypeAlias ==
  Iterate("type", DeclarationStep(Locals, config, "type", collectTypeBlock(lines, idx)))

FunctionLike == Iterate("function", FunctionStep(lines, Locals, config))

Import == Iterate("import", ImportStep(lines, Locals, config))

Unrecognised == Iterate("other", Break(Locals))

\* processContent after the walk loop: the sorted content is rendered
Render ==
  /\ pc = "walk"
  /\ stopped \/ idx >= Len(lines)
  /\ result' = RenderWalk(lines, Locals, config)
  /\ pc' = "done"
  /\ UNCHANGED <<document, settings, walkVars, runs, outcome, project, detectVars, callVars>>

\* the comparison of the texts without their leading and trailing whitespace
ChangedAfterTrim(content, sortedContent) == Trim(sortedContent) # Trim(content)

\* sortedContent === content is false
Changed(content, sortedContent) == sortedContent # content

\* the replacement of the full range of content by sortedContent
FullReplacement(content, sortedContent) ==
  [start |-> 0, end |-> Len(content), newText |-> sortedContent]

\* the text after the replacement edit
Replaced(content, edit) ==
  Slice(content, 0, edit.start) \o edit.newText \o SliceFrom(content, edit.end)

\* sortImports on a sorted content that differs from the document: the edit
\* replacing the whole document is applied by the workspace
ApplyEdit ==
  /\ pc = "done"
  /\ runs < MaxRuns
  /\ Changed(document, result)
  /\ document' = Replaced(document, FullReplacement(document, result))
  /\ runs' = runs + 1
  /\ outcome' = [command |-> "sortImports", content |-> document,
                 edits |-> <<FullReplacement(document, result)>>,
                 didChange |-> TRUE, preview |-> <<>>]
  /\ pc' = "idle"
  /\ UNCHANGED <<settings, walkVars, result, project, detectVars, callVars>>

\* sortImports on a sorted content equal to the document: false is returned
SortImportsUnchanged ==
  /\ pc = "done"
  /\ ~Changed(document, result)
  /\ outcome' = [command |-> "sortImports", content |-> document, edits |-> <<>>,
                 didChange |-> FALSE, preview |-> <<>>]
  /\ pc' = "idle"
  /\ UNCHANGED <<document, settings, walkVars, result, runs, project, detectVars, callVars>>

\* getFormattingEdits returns the edits and applies nothing
GetFormattingEdits ==
  /\ pc = "done"
  /\ outcome' = [command |-> "getFormattingEdits", content |-> document,
                 edits |-> IF Changed(document, result)
                           THEN <<FullReplacement(document, result)>> ELSE <<>>,
                 didChange |-> FALSE, preview |-> <<>>]
  /\ pc' = "idle"
  /\ UNCHANGED <<document, settings, walkVars, result, runs, project, detectVars, callVars>>

\* the preview command opens the diff of the document and the sorted
\* content, or reports that no change was needed
PreviewSortImports ==
  /\ pc = "done"
  /\ outcome' = [command |-> "previewSortImports", content |-> document, edits |-> <<>>,
                 didChange |-> FALSE,
                 preview |-> IF Changed(document, result) THEN <<result>> ELSE <<>>]
  /\ pc' = "idle"
  /\ UNCHANGED <<document, settings, walkVars, result, runs, project, detectVars, callVars>>

Next ==
  \/ GetSortedContent
  \/ SkipBlank
  \/ Directive
  \/ Comment
  \/ Interface
  \/ TypeAlias
  \/ FunctionLike
  \/ Import
  \/ Unrecognised
  \/ Render
  \/ ApplyEdit
  \/ SortImportsUnchanged
  \/ GetFormattingEdits
  \/ PreviewSortImports

Spec == Init /\ [][Next]_vars

(***************************************************************************)
(* The import functions on their own: the specifications below call        *)
(* mergeImportStatements (one step per iteration of its loop),             *)
(* formatImportBlock and getImportGroup on statements drawn from pools,    *)
(* under the SortConfig getSortConfig makes of the workspace settings.     *)
(***************************************************************************)

\* no document is being sorted
NoDocument ==
  /\ document = ""
  /\ lines = <<>>
  /\ idx = 0
  /\ sectionParts = <<>>
  /\ currentConfiguredPart = NoPart
  /\ commentIndex = 0
  /\ stopped = FALSE
  /\ units = <<>>
  /\ result = ""
  /\ runs = 0
  /\ outcome = NoOutcome
  /\ project = NoProject
  /\ NoDetection

\* statements given to mergeImportStatements at once
MaxBlocks == 2

\* the statements mergeImportStatements is called on
MergePool ==
  <<"import A from 'x';",
    "import B from 'x'",
    "import { b, a } from 'x'",
    "import * as ns from 'x';",
    "import type { T } from 'x'",
    "import A, { c } from \"x\"",
    "import 'x'",
    "import { a } from 'y';",
    "import{ d } from 'x'",
    "import a, b from 'x'",
    "import type {} from 'x'",
    "import 'x';",
    "import {} from 'x'">>

InitMerge ==
  /\ NoDocument
  /\ settings \in {WorkspaceSettings(LineLimit, mode, TRUE, DEFAULT_GROUP_ORDER_WITH_SEPARATORS) :
                     mode \in SortModes}
  /\ config = getSortConfig(settings)
  /\ pc = "merge"
  /\ blocks \in {[n \in 1..Len(picks) |-> MergePool[picks[n]]] :
                   picks \in UNION {[1..n -> 1..Len(MergePool)] : n \in 0..MaxBlocks}}
  /\ position = 0
  /\ mergedEntries = <<>>
  /\ passthroughBlocks = <<>>
  /\ output = <<>>

\* the state of the loop of mergeImportStatements
MergeState == [mergedEntries |-> mergedEntries, passthroughBlocks |-> passthroughBlocks]

\* one iteration of the for loop of mergeImportStatements
MergeStatement ==
  LET Taken(step) ==
        /\ mergedEntries' = step.state.mergedEntries
        /\ passthroughBlocks' = step.state.passthroughBlocks
  IN /\ pc = "merge"
     /\ position < Len(blocks)
     /\ Taken(MergeBlock(MergeState, blocks[position + 1], config))
     /\ position' = position + 1
     /\ UNCHANGED <<documentVars, config, pc, blocks, output>>

\* the return statement of mergeImportStatements
MergeReturn ==
  /\ pc = "merge"
  /\ position = Len(blocks)
  /\ output' = MergeResult(MergeState, config)
  /\ pc' = "merged"
  /\ UNCHANGED <<documentVars, config, blocks, position, mergedEntries, passthroughBlocks>>

NextMerge ==
  \/ MergeStatement
  \/ MergeReturn

SpecMerge == InitMerge /\ [][NextMerge]_vars

\* the maxLineLength settings formatImportBlock is called under
MinLineLength == 16
MaxLineLength == 44

\* the statements formatImportBlock is called on
FormatPool ==
  <<"import { b, a } from 'x';",
    "import D, { Zed, type Aa, b as c } from \"./m\"",
    "import type { Beta, alpha } from 'lib';",
    "import { c, bb, aaa, B } from 'y'",
    "import {\n  zeta,\n  eta\n} from '@/m';",
    "import * as ns from 'x'",
    "import{ d, a } from 'x'">>

InitFormat ==
  /\ NoDocument
  /\ settings \in {WorkspaceSettings(n, mode, TRUE, DEFAULT_GROUP_ORDER_WITH_SEPARATORS) :
                     n \in MinLineLength..MaxLineLength, mode \in SortModes}
  /\ config = getSortConfig(settings)
  /\ pc = "format"
  /\ blocks \in {<<FormatPool[n]>> : n \in 1..Len(FormatPool)}
  /\ position = 0
  /\ mergedEntries = <<>>
  /\ passthroughBlocks = <<>>
  /\ output = <<>>

\* formatImportBlock(blocks[1], config)
FormatImportBlock ==
  /\ pc = "format"
  /\ output' = <<formatImportBlock(blocks[1], config)>>
  /\ pc' = "formatted"
  /\ UNCHANGED <<documentVars, config, blocks, position, mergedEntries, passthroughBlocks>>

NextFormat == FormatImportBlock

SpecFormat == InitFormat /\ [][NextFormat]_vars

\* the source paths of the statements getImportGroup is called on
SourcePool ==
  <<"react", "react/jsx-runtime", "react-dom", "react/theme.css", "./a", "../b.css",
    "/abs", "@/x", "~/y", "src/z", "srcs", "lodash", "@scope/pkg", "./S.SCSS",
    "app", "app/x.less">>

\* the statements getImportGroup is called on: with a clause, type-only,
\* and without a clause
ClassifyPool ==
  {"import a from '" \o SourcePool[n] \o "';" : n \in 1..Len(SourcePool)}
  \cup {"import type { T } from \"" \o SourcePool[n] \o "\"" : n \in 1..Len(SourcePool)}
  \cup {"import '" \o SourcePool[n] \o "';" : n \in 1..Len(SourcePool)}

\* the aliasPrefixes and styleExtensions settings getImportGroup is called under
ClassifySettings ==
  {[WorkspaceSettings(LineLimit, "length", TRUE, DEFAULT_GROUP_ORDER_WITH_SEPARATORS)
      EXCEPT !.aliasPrefixes = prefixes, !.styleExtensions = extensions] :
     prefixes \in {<<"@/", "~/", "src/">>, <<"app">>, <<>>},
     extensions \in {<<".css", ".scss", ".sass", ".less">>, <<" CSS ">>}}

InitClassify ==
  /\ NoDocument
  /\ settings \in ClassifySettings
  /\ config = getSortConfig(settings)
  /\ pc = "classify"
  /\ blocks \in {<<b>> : b \in ClassifyPool}
  /\ position = 0
  /\ mergedEntries = <<>>
  /\ passthroughBlocks = <<>>
  /\ output = <<>>

\* getImportGroup(blocks[1], config)
GetImportGroup ==
  /\ pc = "classify"
  /\ output' = <<getImportGroup(blocks[1], config)>>
  /\ pc' = "classified"
  /\ UNCHANGED <<documentVars, config, blocks, position, mergedEntries, passthroughBlocks>>

NextClassify == GetImportGroup

SpecClassify == InitClassify /\ [][NextClassify]_vars

(***************************************************************************)
(* The claims of the specification, stated over the state machines above.  *)
(***************************************************************************)

\* the sorted content has been rendered
Done == pc = "done"

\* C1: sorting is idempotent: once the sorted content has been applied to
\* the document, sorting the document again yields the document itself
C1_Idempotence == Done /\ runs >= 1 => result = document

\* C2: the lines from the one the walk stopped at are preserved verbatim:
\* the sorted content ends with exactly that remainder (trimmed, and
\* followed by the final newline), blank-line runs inside it included
C2_RemainderVerbatim ==
  Done /\ Trim(Remainder(lines, idx)) # ""
    => EndsWith(result, Trim(Remainder(lines, idx)) \o "\n")

\* the section parts when the walk loop is left
AllParts ==
  IF currentConfiguredPart.type # "null"
  THEN Append(sectionParts, currentConfiguredPart) ELSE sectionParts

\* the statements the sorted content holds for a group of imports
Emitted(group) ==
  UNION {{SortedImports(group, AllParts[n].groups[group], config)[k] :
            k \in 1..Len(SortedImports(group, AllParts[n].groups[group], config))} :
           n \in {m \in 1..Len(AllParts) : AllParts[m].type = "configured"}}
  \cup {AllParts[n].value :
          n \in {m \in 1..Len(AllParts) :
                   /\ AllParts[m].type = "raw"
                   /\ StartsWith(AllParts[m].value, "import")
                   /\ getImportGroup(AllParts[m].value, config) = group}}

\* the bindings an import clause introduces
ClauseBindings(clause) ==
  (IF clause.defaultImport # "" THEN {clause.defaultImport} ELSE {})
  \cup (IF clause.namespaceImport # "" THEN {clause.namespaceImport} ELSE {})
  \cup {clause.namedSpecifiers[n] : n \in 1..Len(clause.namedSpecifiers)}

\* source, type-only flag and bindings of a statement
Parts(statement) ==
  LET Described(parsed, clause) ==
        [ok |-> TRUE, source |-> parsed.source, isTypeOnly |-> parsed.isTypeOnly,
         defaultImport |-> clause.defaultImport,
         namespaceImport |-> clause.namespaceImport,
         namedSpecifiers |-> clause.namedSpecifiers,
         bindings |-> ClauseBindings(clause)]
      Parsed(parsed) ==
        IF ~parsed.ok THEN [ok |-> FALSE]
        ELSE Described(parsed, IF parsed.importClause = "" THEN NotMergeable
                               ELSE parseImportClause(parsed.importClause))
  IN Parsed(parseImportBlock(Normalize(statement)))

\* the import is represented among the statements: its source with its
\* type-only flag, and each of its bindings under that source
Represented(import, statements) ==
  /\ \E st \in statements :
       /\ Parts(st).ok
       /\ Parts(st).source = import.source
       /\ Parts(st).isTypeOnly = import.isTypeOnly
  /\ \A b \in import.bindings :
       \E st \in statements :
         /\ Parts(st).ok
         /\ Parts(st).source = import.source
         /\ b \in Parts(st).bindings

\* the indices of the imports collected by the walk that parse
ParsedImports ==
  {n \in 1..Len(units) : units[n].kind = "import" /\ Parts(units[n].block).ok}

\* C3: group completeness: every import collected from the leading region
\* is represented in the statements emitted for its group (its source with
\* the same type-only flag, and each of its bindings), and in no other group
C3_GroupCompleteness ==
  Done =>
    \A n \in ParsedImports :
      /\ units[n].group \in ImportGroupKey
      /\ Represented(Parts(units[n].block), Emitted(units[n].group))
      /\ \A g \in ImportGroupKey \ {units[n].group} :
           \A st \in Emitted(g) :
             Parts(st).ok => Parts(st).source # Parts(units[n].block).source

\* mergeImportStatements has returned
Merged == pc = "merged"

\* what the statements of a list are
PartsOf(statements) == [n \in 1..Len(statements) |-> Parts(statements[n])]

\* the pairs of given statements of one source whose default bindings are
\* both present and different
ConflictingDefaults(given) ==
  {<<i, j>> \in (1..Len(given)) \X (1..Len(given)) :
     /\ given[i].ok /\ given[j].ok
     /\ given[i].source = given[j].source
     /\ given[i].defaultImport # "" /\ given[j].defaultImport # ""
     /\ given[i].defaultImport # given[j].defaultImport}

\* each default binding of a conflicting pair is in an emitted statement of
\* that source of its own
KeptApart(given, emitted) ==
  \A pair \in ConflictingDefaults(given) :
    \E m, n \in 1..Len(emitted) :
      /\ m # n
      /\ emitted[m].ok /\ emitted[n].ok
      /\ emitted[m].source = given[pair[1]].source
      /\ emitted[n].source = given[pair[1]].source
      /\ emitted[m].defaultImport = given[pair[1]].defaultImport
      /\ emitted[n].defaultImport = given[pair[2]].defaultImport

\* C4: merge safety: two given imports of one source with different default
\* bindings are not combined: each default binding is in an emitted
\* statement of that source of its own
C4_MergeSafety == Merged => KeptApart(PartsOf(blocks), PartsOf(output))

\* mergeImportStatements has returned for statements with conflicting
\* default bindings
C4_Witness == Merged /\ ConflictingDefaults(PartsOf(blocks)) # {}

\* the given statements that introduce bindings
Binding(given) == {i \in 1..Len(given) : given[i].ok /\ given[i].bindings # {}}

\* the emitted statement carries the given one: same source, and all of
\* its bindings
Carries(emitted, given) ==
  /\ emitted.ok
  /\ emitted.source = given.source
  /\ given.bindings \subseteq emitted.bindings

\* no emitted statement has a namespace binding and named specifiers; each
\* given statement is carried by an emitted statement of its source, and
\* every emitted statement that carries it has its type-only flag
MergedByKind(given, emitted) ==
  /\ \A m \in 1..Len(emitted) :
       emitted[m].ok =>
         ~(emitted[m].namespaceImport # "" /\ Len(emitted[m].namedSpecifiers) > 0)
  /\ \A i \in Binding(given) :
       /\ \E m \in 1..Len(emitted) : Carries(emitted[m], given[i])
       /\ \A m \in 1..Len(emitted) :
            Carries(emitted[m], given[i]) => emitted[m].isTypeOnly = given[i].isTypeOnly

\* C5: mergeImportStatements combines imports only of the same source and
\* the same type-only flag, and emits no statement with both a namespace
\* binding and named specifiers
C5_MergeCompatibility == Merged => MergedByKind(PartsOf(blocks), PartsOf(output))

\* pairs of given statements of one source: a type-only and a value import,
\* or a namespace import and one with named specifiers
Incompatible(given) ==
  {<<i, j>> \in Binding(given) \X Binding(given) :
     /\ given[i].source = given[j].source
     /\ \/ given[i].isTypeOnly /\ ~given[j].isTypeOnly
        \/ given[i].namespaceImport # "" /\ Len(given[j].namedSpecifiers) > 0}

\* mergeImportStatements has returned for a type-only and a value import of
\* one source
C5_Witness ==
  /\ Merged
  /\ \E pair \in Incompatible(PartsOf(blocks)) :
       PartsOf(blocks)[pair[1]].isTypeOnly
  /\ \E pair \in Incompatible(PartsOf(blocks)) :
       PartsOf(blocks)[pair[1]].namespaceImport # ""

\* the comment lines among lines, in their order
CommentLines(text) ==
  KeepUpTo(text, {n \in 1..Len(text) : LineKind(Trim(text[n])) = "comment"}, Len(text))

\* the comment lines the walk collected, in the order of the document
CollectedComments ==
  LET comments == KeepUpTo(units, {n \in 1..Len(units) : units[n].kind = "comment"},
                           Len(units))
  IN [n \in 1..Len(comments) |-> comments[n].block]

\* C6: comment order preservation: the comment lines of the sorted content
\* are the comment lines collected from the leading region, in their order
\* in the document, wherever the comments group is configured
C6_CommentOrder ==
  Done => CommentLines(SplitLines(result)) = CollectedComments

\* two different comments were collected, the second sorting before the
\* first by its text, while the comments group is omitted from groupsOrder
\* under alphabetical mode
C6_Witness ==
  /\ Done
  /\ Len(CollectedComments) = 2
  /\ compareStrings(CollectedComments[2], CollectedComments[1], "alphabetical") < 0
  /\ \A n \in 1..Len(settings.groupsOrder) : settings.groupsOrder[n] # "comments"
  /\ settings.sortMode = "alphabetical"

\* getImportGroup has returned
Classified == pc = "classified"

\* the source ends, case-insensitively, with a configured style extension
StyleSource(source, styleExtensions) ==
  \E n \in 1..Len(styleExtensions) :
    /\ Len(styleExtensions[n]) <= Len(source)
    /\ ToLower(SliceFrom(source, Len(source) - Len(styleExtensions[n])))
         = styleExtensions[n]

\* the source matches an alias prefix: it starts with a prefix that ends
\* with a slash, or it is a prefix or starts with the prefix and a slash
AliasSource(source, aliasPrefixes) ==
  \E n \in 1..Len(aliasPrefixes) :
    /\ Trim(aliasPrefixes[n]) # ""
    /\ \/ source = Trim(aliasPrefixes[n])
       \/ StartsWith(source, Trim(aliasPrefixes[n]) \o "/")
       \/ EndsWith(Trim(aliasPrefixes[n]), "/") /\ StartsWith(source, Trim(aliasPrefixes[n]))

\* the first-match decision list over the source of an import
DecisionList(import, styleExtensions, aliasPrefixes) ==
  IF StyleSource(import.source, styleExtensions) THEN "styles"
  ELSE IF import.bindings = {} THEN "sideEffect"
  ELSE IF import.source = "react" \/ StartsWith(import.source, "react/") THEN "react"
  ELSE IF AliasSource(import.source, aliasPrefixes) THEN "absolute"
  ELSE IF At(import.source, 0) \in {".", "/"} THEN "relative"
  ELSE "libraries"

\* C7: getImportGroup is the first-match decision list over the source:
\* styles, react, absolute, relative, libraries for an import with a clause,
\* styles or sideEffect for one without, and its final else is never taken
C7_DecisionList ==
  Classified =>
    /\ output[1] = DecisionList(Parts(blocks[1]), config.styleExtensions,
                                config.aliasPrefixes)
    /\ getImportGroupBranch(blocks[1], config) \notin {0, 7}

\* an import, with a clause, of a style sheet under react/ has been
\* classified as styles
C7_Witness ==
  /\ Classified
  /\ Parts(blocks[1]).source = "react/theme.css"
  /\ Parts(blocks[1]).bindings # {}
  /\ output[1] = "styles"

\* the group identifiers written in the sortImports.groupsOrder setting
WrittenGroups == {settings.groupsOrder[n] : n \in 1..Len(settings.groupsOrder)}

\* the collected units of groups omitted from the setting
OmittedUnits == {n \in 1..Len(units) : units[n].group \notin WrittenGroups}

\* the pairs of collected units, in document order and of different text,
\* of which one at least belongs to an omitted group, the other one being
\* found in the sorted content with its text
AroundOmitted ==
  {<<i, j>> \in (1..Len(units)) \X (1..Len(units)) :
     /\ i < j
     /\ units[i].block # units[j].block
     /\ i \in OmittedUnits \/ j \in OmittedUnits
     /\ IndexOf(result, units[i].block) # -1 \/ i \in OmittedUnits
     /\ IndexOf(result, units[j].block) # -1 \/ j \in OmittedUnits}

\* C8: the units of a group omitted from sortImports.groupsOrder stay in
\* place: they are emitted with their original text, at their position
\* relative to the units before and after them
C8_OmittedStayInPlace ==
  Done =>
    /\ \A n \in OmittedUnits : IndexOf(result, units[n].block) # -1
    /\ \A pair \in AroundOmitted :
         IndexOf(result, units[pair[1]].block) < IndexOf(result, units[pair[2]].block)

\* formatImportBlock has returned
Formatted == pc = "formatted"

\* the statement given to formatImportBlock has named specifiers
GivenNamed == Parts(blocks[1]).ok /\ Len(Parts(blocks[1]).namedSpecifiers) > 0

\* the length of the statement of these lines once put on a single line:
\* the specifier lines lose their indent, a space follows the opening brace
\* and each comma, and the last comma becomes the space before the closing
\* brace
SingleLineLength(text, indent) ==
  Len(text[1]) + Len(text[Len(text)])
  + Len(Concat(SubSeq(text, 2, Len(text) - 1)))
  - (Len(text) - 2) * Len(indent) + (Len(text) - 2)

\* the lines are a statement wrapped with one specifier per line, each
\* after the indent and followed by a comma
OnePerLine(text, indent) ==
  /\ Len(text) >= 3
  /\ EndsWith(text[1], "{")
  /\ StartsWith(text[Len(text)], "}")
  /\ \A n \in 2..(Len(text) - 1) :
       /\ StartsWith(text[n], indent)
       /\ EndsWith(text[n], ",")
       /\ Len(text[n]) > Len(indent) + 1
       /\ ~IsSpace(At(text[n], Len(indent)))
       /\ CountChar(text[n], ",") = 1

\* a statement stays on one line when that line is at most maxLineLength
\* long, and is otherwise wrapped with one specifier per line
WrappedAtLimit(text, limit, indent) ==
  IF Len(text) = 1 THEN Len(text[1]) <= limit
  ELSE OnePerLine(text, indent) /\ SingleLineLength(text, indent) > limit

\* C9: line-wrap boundary: formatImportBlock keeps the named specifiers on
\* one line exactly when the single-line statement is at most maxLineLength
\* long, and otherwise puts one specifier per line, each after the indent
\* and followed by a comma
C9_LineWrapBoundary ==
  Formatted /\ GivenNamed
    => WrappedAtLimit(Split(output[1], "\n"), config.maxLineLength, config.indent)

\* a statement exactly maxLineLength long has been kept on one line
C9_Witness ==
  /\ Formatted
  /\ GivenNamed
  /\ Len(output[1]) = config.maxLineLength
  /\ ~Includes(output[1], "\n")

\* the specifier without a leading type marker, in lower case
Unmarked(specifier) ==
  ToLower(IF ToLower(Slice(specifier, 0, 4)) = "type" /\ IsSpace(At(specifier, 4))
          THEN Trim(SliceFrom(specifier, 5)) ELSE specifier)

\* the first specifier is not after the second under the comparator of the
\* mode; case is ignored in both modes
InOrder(a, b, mode) ==
  IF mode = "alphabetical" THEN LocaleCompare(Unmarked(a), Unmarked(b)) <= 0
  ELSE \/ Len(a) < Len(b)
       \/ Len(a) = Len(b) /\ LocaleCompare(ToLower(a), ToLower(b)) <= 0

\* the emitted specifiers are the given ones, in the order of the mode
SortedSpecifiers(given, emitted, mode) ==
  /\ Len(emitted) = Len(given)
  /\ {emitted[n] : n \in 1..Len(emitted)} = {given[n] : n \in 1..Len(given)}
  /\ \A m, n \in 1..Len(emitted) : m < n => InOrder(emitted[m], emitted[n], mode)

MaxMembers == 2

\* the members: short and long, upper and lower case, terminated by `;`,
\* by `,` and by nothing, and one whose value is an object literal
MemberPool ==
  <<"  b: string;",
    "  aaaaaaaa: number;",
    "  Bb: boolean,",
    "  c: { y: string; x: number };",
    "  zz?: A[]">>

TypeHeaders == <<"interface A {", "export type T = {">>

\* the blocks sortTypeMembers is called on; the last ones are an empty
\* interface and aliases of a union, a primitive, a function type and a
\* union under a generic parameter whose default is an object literal
TypePool ==
  {TypeHeaders[h] \o "\n" \o Join([n \in 1..Len(picks) |-> MemberPool[picks[n]]], "\n")
     \o (IF Len(picks) = 0 THEN "" ELSE "\n") \o "}" :
     h \in 1..Len(TypeHeaders),
     picks \in UNION {[1..n -> 1..Len(MemberPool)] : n \in 0..MaxMembers}}
  \cup {"type U = A | B;", "interface E {}", "type P = string;",
        "type F = (x: { b: string; a: number }) => void;",
        "type G<U = {\n  bb: number;\n  a: string;\n}> = U | null;"}

InitTypes ==
  /\ NoDocument
  /\ settings \in {WorkspaceSettings(LineLimit, mode, TRUE, DEFAULT_GROUP_ORDER_WITH_SEPARATORS) :
                     mode \in SortModes}
  /\ config = getSortConfig(settings)
  /\ pc = "sort"
  /\ blocks \in {<<b>> : b \in TypePool}
  /\ position = 0
  /\ mergedEntries = <<>>
  /\ passthroughBlocks = <<>>
  /\ output = <<>>

\* sortTypeMembers(blocks[1], config)
SortTypeMembers ==
  /\ pc = "sort"
  /\ output' = <<sortTypeMembers(blocks[1], config)>>
  /\ pc' = "sorted"
  /\ UNCHANGED <<documentVars, config, blocks, position, mergedEntries, passthroughBlocks>>

NextTypes == SortTypeMembers

SpecTypes == InitTypes /\ [][NextTypes]_vars

\* sortTypeMembers has returned
Sorted == pc = "sorted"

\* the top-level members sortStructuredMembers splits a block into, each
\* with the members of its object literals put in order
MembersOf(block, sortConfig) ==
  LET Normalized(members) ==
        [n \in 1..Len(members) |-> sortStructuredObjectLiterals(members[n], sortConfig)]
      Body(bodyRange) ==
        IF ~bodyRange.found THEN <<>>
        ELSE Normalized(collectTopLevelMembers(
               Slice(block, bodyRange.openBraceIdx + 1, bodyRange.closeBraceIdx)))
  IN Body(findTopLevelBodyRange(block))

\* member a may stand before member b under the comparator mode
MembersInOrder(a, b, mode) ==
  LET ByLength(x, y) ==
        \/ Len(x) < Len(y)
        \/ Len(x) = Len(y) /\ LocaleCompare(x, y) <= 0
  IN IF mode = "alphabetical"
     THEN LocaleCompare(FirstNonBlankLine(Split(a, "\n"), 1),
                        FirstNonBlankLine(Split(b, "\n"), 1)) <= 0
     ELSE ByLength(Normalize(a), Normalize(b))

\* the block is its header, the given members in the order of places, one
\* per line group, and its footer
MadeOf(block, given, members, places) ==
  LET Shape(bodyRange) ==
        block = Slice(given, 0, bodyRange.openBraceIdx + 1) \o "\n"
                  \o Join([n \in 1..Len(members) |-> members[places[n]]], "\n") \o "\n"
                  \o SliceFrom(given, bodyRange.closeBraceIdx)
  IN Shape(findTopLevelBodyRange(given))

\* C11: after sortTypeMembers the top-level members of the block are in
\* non-decreasing order of the active comparator: in length mode by the
\* length of the whitespace-collapsed member text, ties broken by the
\* case-insensitive comparison; in alphabetical mode by the case-insensitive
\* comparison of the first non-blank trimmed line.  The returned block is
\* made of the members of the given block, each once, in such an order.
C11_MemberOrder ==
  LET Ordered(members, places) ==
        \A n \in 1..(Len(members) - 1) :
          MembersInOrder(members[places[n]], members[places[n + 1]], config.sortMode)
      Arranged(members) ==
        \E places \in [1..Len(members) -> 1..Len(members)] :
          /\ \A m, n \in 1..Len(members) : places[m] = places[n] => m = n
          /\ Ordered(members, places)
          /\ MadeOf(output[1], blocks[1], members, places)
      Holds(members) == Len(members) > 0 => Arranged(members)
  IN Sorted => Holds(MembersOf(blocks[1], config))

\* `b: string;` given after `aaaaaaaa: number;` in length mode, and
\* sortTypeMembers puts it first
C11_Witness ==
  /\ Sorted
  /\ config.sortMode = "length"
  /\ blocks[1] = "interface A {\n  aaaaaaaa: number;\n  b: string;\n}"
  /\ output[1] = "interface A {\n  b: string;\n  aaaaaaaa: number;\n}"

\* the executable declarations collected by the walk, in document order
CollectedFunctions ==
  LET functions == KeepUpTo(units, {n \in 1..Len(units) : units[n].group = "functions"},
                            Len(units))
  IN [n \in 1..Len(functions) |-> functions[n].block]

\* C12: with the default group order the executable declarations collected
\* from the leading region are emitted with their original text, in their
\* original order, after everything else of the processed region: what
\* follows them in the sorted content is the remainder and nothing else
C12_FunctionsLast ==
  LET Last(functions, rest, at) ==
        /\ at # -1
        /\ Normalize(SliceFrom(result, at + Len(functions))) = Normalize(rest)
      Holds(functions) ==
        Last(functions, Remainder(lines, idx), IndexOf(result, functions))
  IN Done /\ settings.groupsOrder = DEFAULT_GROUP_ORDER_WITH_SEPARATORS
          /\ Len(CollectedFunctions) > 0
       => Holds(Join(CollectedFunctions, "\n\n"))

\* a command has concluded on the sorted content
Concluded == pc = "idle" /\ outcome.command # "none"

\* C13: no-op detection: the command produces nothing (sortImports applies
\* no edit and returns false, getFormattingEdits returns no edit, the
\* preview opens no diff) exactly when the sorted content equals the text of
\* the document; otherwise it produces exactly one replacement of the whole
\* document by the sorted content
C13_NoOpDetection ==
  LET Nothing ==
        /\ outcome.edits = <<>>
        /\ outcome.preview = <<>>
        /\ ~outcome.didChange
        /\ document = outcome.content
      Whole == [start |-> 0, end |-> Len(outcome.content), newText |-> result]
      One ==
        /\ outcome.command = "sortImports" =>
             outcome.edits = <<Whole>> /\ outcome.didChange /\ document = result
        /\ outcome.command = "getFormattingEdits" => outcome.edits = <<Whole>>
        /\ outcome.command = "previewSortImports" => outcome.preview = <<result>>
  IN Concluded => IF result = outcome.content THEN Nothing ELSE One

\* sortImports has returned false on a document that was already sorted and
\* holds collected units
C13_Witness ==
  /\ Concluded
  /\ outcome.command = "sortImports"
  /\ ~outcome.didChange
  /\ result = document
  /\ Len(units) > 0

(***************************************************************************)
(* buildConfiguredPart on its own: called on a configured part of which    *)
(* up to MaxGroups groups hold an entry, under the group orders            *)
(* getSortConfig makes of the groupsOrder settings.                        *)
(***************************************************************************)

\* groups of a configured part that hold an entry
MaxGroups == 3

\* the entry each group holds when it holds one
GroupEntry ==
  [g \in GroupKey |->
     CASE g = "directives" -> "'use client';"
       [] g = "react" -> "import React from 'react';"
       [] g = "libraries" -> "import a from 'lib';"
       [] g = "absolute" -> "import x from '@/x';"
       [] g = "relative" -> "import r from './r';"
       [] g = "sideEffect" -> "import './s';"
       [] g = "styles" -> "import './s.css';"
       [] g = "interfaces" -> "interface A {}"
       [] g = "comments" -> [line |-> "// note", originalIndex |-> 0]
       [] g = "functions" -> "const k = 1;"]

\* the groupsOrder settings buildConfiguredPart is called under
PartGroupsOrders ==
  {DEFAULT_GROUP_ORDER_WITH_SEPARATORS,
   <<"functions", "spacing", "libraries", "react">>,
   <<"comments", "absolute", "libraries", "spacing", "interfaces">>,
   <<"spacing", "react", "spacing", "spacing", "libraries", "styles", "spacing">>}

InitPart ==
  /\ document = ""
  /\ lines = <<>>
  /\ idx = 0
  /\ sectionParts = <<>>
  /\ commentIndex = 0
  /\ stopped = FALSE
  /\ units = <<>>
  /\ result = ""
  /\ runs = 0
  /\ outcome = NoOutcome
  /\ project = NoProject
  /\ NoDetection
  /\ settings \in {WorkspaceSettings(LineLimit, "length", TRUE, order) :
                     order \in PartGroupsOrders}
  /\ config = getSortConfig(settings)
  /\ pc = "build"
  /\ currentConfiguredPart \in
       {[type |-> "configured", value |-> "",
         groups |-> [g \in GroupKey |-> IF g \in held THEN <<GroupEntry[g]>> ELSE <<>>]] :
          held \in {h \in SUBSET GroupKey : Cardinality(h) <= MaxGroups}}
  /\ blocks = <<>>
  /\ position = 0
  /\ mergedEntries = <<>>
  /\ passthroughBlocks = <<>>
  /\ output = <<>>

\* buildConfiguredPart(currentConfiguredPart.groups, config)
BuildConfiguredPart ==
  /\ pc = "build"
  /\ output' = <<buildConfiguredPart(currentConfiguredPart.groups, config)>>
  /\ pc' = "built"
  /\ UNCHANGED <<documentVars, config, blocks, position, mergedEntries, passthroughBlocks>>

NextPart == BuildConfiguredPart

SpecPart == InitPart /\ [][NextPart]_vars

\* buildConfiguredPart has returned
Built == pc = "built"

\* the places of config.groupsOrder that hold a group with a block, in order
RenderedPlaces(blockAt) ==
  KeepUpTo([n \in 1..Len(blockAt) |-> n], {n \in 1..Len(blockAt) : blockAt[n] # ""},
           Len(blockAt))

\* the blocks at the rendered places, each but the first preceded by a blank
\* line when a separator lies between it and the one before, and by a
\* single newline otherwise
SeparatedBlocks(groupsOrder, blockAt, places) ==
  Concat([k \in 1..Len(places) |->
            (IF k = 1 THEN ""
             ELSE IF \E n \in (places[k - 1] + 1)..(places[k] - 1) :
                       groupsOrder[n] = Separator
             THEN "\n\n" ELSE "\n")
            \o blockAt[places[k]]])

\* the block of each place of config.groupsOrder; none for a separator
BlockAt(groups, sortConfig) ==
  [n \in 1..Len(sortConfig.groupsOrder) |->
     IF sortConfig.groupsOrder[n] = Separator THEN ""
     ELSE getGroupBlock(sortConfig.groupsOrder[n], groups, sortConfig)]

\* C14: the configured groups are rendered in the order of groupsOrder, two
\* consecutively rendered groups separated by exactly one blank line when at
\* least one separator lies between them in groupsOrder and by a single
\* newline otherwise; a separator before the first rendered group yields
\* nothing and so does an empty group
C14_SeparatorRendering ==
  LET Holds(blockAt) ==
        output[1] = SeparatedBlocks(config.groupsOrder, blockAt, RenderedPlaces(blockAt))
  IN Built => Holds(BlockAt(currentConfiguredPart.groups, config))

\* of three rendered groups the first two have no separator between them
\* and the last two have one, and separators precede the first
C14_Witness ==
  /\ Built
  /\ settings.groupsOrder = <<"spacing", "react", "spacing", "spacing", "libraries",
                              "styles", "spacing">>
  /\ output[1] = "import a from 'lib';\nimport './s.css';\n\n// note"

\* C15: the sorted content holds no run of three or more newlines, also
\* when the remainder is empty and when the run lies inside a collected
\* block
C15_NoTripleNewline == Done => IndexOf(result, "\n\n\n") = -1

\* C16: the sorted content ends with exactly one newline: its last
\* character is a newline and, unless it is that single newline, the one
\* before is not
C16_OneTrailingNewline ==
  Done =>
    /\ EndsWith(result, "\n")
    /\ result # "\n" => ~EndsWith(result, "\n\n")

\* a document of blank lines only has been sorted into the single newline
C16_Witness ==
  /\ Done
  /\ document = "\n\n"
  /\ result = "\n"

\* the quote character of a statement
QuoteOf(statement) == IF IndexOf(statement, "\"") # -1 THEN "\"" ELSE "'"

\* the statement ends with a semicolon
Semicolon(statement) == EndsWith(Trim(statement), ";")

\* the emitted statement m stands for the given statement i: both import
\* the source for its side effects only, or m carries the bindings of i
StandsFor(given, emitted, i, m) ==
  /\ given[i].ok /\ emitted[m].ok
  /\ given[i].source = emitted[m].source
  /\ IF isSideEffectImport(Normalize(blocks[i]))
     THEN isSideEffectImport(Normalize(output[m]))
     ELSE given[i].bindings # {} /\ Carries(emitted[m], given[i])

\* the given statement i is the only one of its source
Alone(given, i) ==
  \A j \in 1..Len(given) : j # i /\ given[j].ok => given[j].source # given[i].source

\* every given statement is stood for; the statement standing for one that
\* is alone has its quote and its semicolon presence, and the statement
\* standing for one that ends with a semicolon ends with one
EndsPreserved(given, emitted) ==
  \A i \in 1..Len(given) :
    given[i].ok /\ (given[i].bindings # {} \/ isSideEffectImport(Normalize(blocks[i]))) =>
      /\ \E m \in 1..Len(emitted) : StandsFor(given, emitted, i, m)
      /\ \A m \in 1..Len(emitted) :
           StandsFor(given, emitted, i, m) =>
             /\ Semicolon(blocks[i]) => Semicolon(output[m])
             /\ Alone(given, i) =>
                  /\ QuoteOf(output[m]) = QuoteOf(blocks[i])
                  /\ Semicolon(output[m]) = Semicolon(blocks[i])

\* C17: an import that is not merged with another is emitted with its own
\* quote character and its own semicolon presence, and a statement made by
\* merging duplicates ends with a semicolon if any of the merged statements
\* did, duplicate side-effect imports of one source included
C17_QuoteAndSemicolon == Merged => EndsPreserved(PartsOf(blocks), PartsOf(output))

(***************************************************************************)
(* normalizeGroupsOrder on its own: called on the groupsOrder settings     *)
(* made of nothing or of the default order short of its last group,        *)
(* followed by up to MaxOrder entries of a pool.                           *)
(***************************************************************************)

\* entries written after the start of a groupsOrder setting
MaxOrder == 3

\* the entries: a group, the spacing marker, a group written with blanks
\* around it, an unknown identifier and a group written in another case
OrderPool == <<"functions", "spacing", " react ", "unknown", "Libraries">>

\* what the settings start with
OrderStarts ==
  {<<>>, SubSeq(DEFAULT_GROUP_ORDER_WITH_SEPARATORS, 1,
                Len(DEFAULT_GROUP_ORDER_WITH_SEPARATORS) - 1)}

InitGroups ==
  /\ NoDocument
  /\ settings \in
       {WorkspaceSettings(LineLimit, "length", TRUE,
                          start \o [n \in 1..Len(picks) |-> OrderPool[picks[n]]]) :
          start \in OrderStarts,
          picks \in UNION {[1..n -> 1..Len(OrderPool)] : n \in 0..MaxOrder}}
  /\ config = getSortConfig(settings)
  /\ pc = "normalize"
  /\ blocks = <<>>
  /\ position = 0
  /\ mergedEntries = <<>>
  /\ passthroughBlocks = <<>>
  /\ output = <<>>

\* normalizeGroupsOrder(settings.groupsOrder)
NormalizeGroupsOrder ==
  /\ pc = "normalize"
  /\ output' = normalizeGroupsOrder(settings.groupsOrder)
  /\ pc' = "normalized"
  /\ UNCHANGED <<documentVars, config, blocks, position, mergedEntries, passthroughBlocks>>

NextGroups == NormalizeGroupsOrder

SpecGroups == InitGroups /\ [][NextGroups]_vars

\* normalizeGroupsOrder has returned
Normalized == pc = "normalized"

\* the first place of each group in the list; 0 when it is not there
FirstPlaces(list) ==
  [g \in GroupKey |-> Least({n \in 1..Len(list) : list[n] = g}, 0)]

\* the entries of a groupsOrder setting without the blanks around them
Entries(groupsOrder) == [n \in 1..Len(groupsOrder) |-> Trim(groupsOrder[n])]

\* each group once, nothing but groups and separators, no separator first,
\* last or next to another
WellFormedOrder(list) ==
  /\ \A g \in GroupKey : Cardinality({n \in 1..Len(list) : list[n] = g}) = 1
  /\ \A n \in 1..Len(list) : list[n] \in GroupKey \cup {Separator}
  /\ list[1] # Separator
  /\ list[Len(list)] # Separator
  /\ \A n \in 1..(Len(list) - 1) : ~(list[n] = Separator /\ list[n + 1] = Separator)

\* the groups written in the setting come in the order of their first
\* occurrence, then the omitted ones in the default order; written, placed
\* and default are the first places of the groups in the setting, in the
\* returned list and in the default order
OrderedAsGiven(written, placed, default) ==
  \A a, b \in GroupKey :
    a # b =>
      IF written[a] # 0 /\ written[b] # 0
      THEN placed[a] < placed[b] <=> written[a] < written[b]
      ELSE IF written[a] # 0 THEN placed[a] < placed[b]
      ELSE IF written[b] # 0 THEN placed[b] < placed[a]
      ELSE placed[a] < placed[b] <=> default[a] < default[b]

DEFAULT_ALIAS_PREFIXES == <<"@/", "~/", "src/">>

\* the values as they are
AllValues(values) == values

uniquePreservingOrder(values) ==
  KeepUpTo(values,
           {n \in 1..Len(values) :
              values[n] # "" /\ \A m \in 1..(n - 1) : values[m] # values[n]},
           Len(values))

\* text.replace(/\*+$/g, '')
StripTrailingStars(text) ==
  Slice(text, 0,
        Least({e \in 0..Len(text) : \A i \in e..(Len(text) - 1) : At(text, i) = "*"},
              Len(text)))

\* text.replace(/\$$/, '')
StripTrailingDollar(text) ==
  IF EndsWith(text, "$") THEN Slice(text, 0, Len(text) - 1) ELSE text

normalizeAliasPrefix(prefix) ==
  LET Slashed(trimmedPrefix) ==
        IF trimmedPrefix = "" THEN ""
        ELSE IF EndsWith(trimmedPrefix, "/") THEN trimmedPrefix
        ELSE trimmedPrefix \o "/"
  IN Slashed(StripTrailingDollar(StripTrailingStars(Trim(prefix))))

normalizeAliasPrefixes(prefixes) ==
  uniquePreservingOrder(
    NonEmpty([n \in 1..Len(prefixes) |-> normalizeAliasPrefix(prefixes[n])]))

resolveAliasPrefixes(documentUri, manualAliasPrefixes, detectFromProjectConfig, files) ==
  LET normalizedManualPrefixes == normalizeAliasPrefixes(manualAliasPrefixes)
      normalizedDefaultPrefixes == normalizeAliasPrefixes(DEFAULT_ALIAS_PREFIXES)
  IN IF ~detectFromProjectConfig \/ ~documentUri.defined \/ documentUri.scheme # "file"
     THEN uniquePreservingOrder(normalizedManualPrefixes \o normalizedDefaultPrefixes)
     ELSE IF ~files.projectRoot
     THEN uniquePreservingOrder(normalizedManualPrefixes \o normalizedDefaultPrefixes)
     ELSE uniquePreservingOrder(normalizedManualPrefixes
                                  \o normalizeAliasPrefixes(files.detectedPrefixes)
                                  \o normalizedDefaultPrefixes)

\* prefixes written in the aliasPrefixes setting, and read from a project
MaxPrefixes == 2

\* the prefixes of the setting: a default, a name without a slash, a path
\* pattern with blanks around it, and one that is nothing but a pattern
ManualPool == <<"@/", "app", " lib/* ", "*$">>

\* the prefixes read from the configuration files of a project
DetectedPool == <<"app/", "#/*">>

\* the documents: alias detection off, no document, a document that is not
\* a file, a file without a project root, and a file within a project
ProjectPool ==
  {[detectFromProjectConfig |-> FALSE, projectRoot |-> TRUE,
    documentUri |-> [defined |-> TRUE, scheme |-> "file"]],
   [detectFromProjectConfig |-> TRUE, projectRoot |-> TRUE,
    documentUri |-> [defined |-> FALSE, scheme |-> ""]],
   [detectFromProjectConfig |-> TRUE, projectRoot |-> TRUE,
    documentUri |-> [defined |-> TRUE, scheme |-> "untitled"]],
   [detectFromProjectConfig |-> TRUE, projectRoot |-> FALSE,
    documentUri |-> [defined |-> TRUE, scheme |-> "file"]],
   [detectFromProjectConfig |-> TRUE, projectRoot |-> TRUE,
    documentUri |-> [defined |-> TRUE, scheme |-> "file"]]}

InitAlias ==
  /\ NoDetection
  /\ document = ""
  /\ lines = <<>>
  /\ idx = 0
  /\ sectionParts = <<>>
  /\ currentConfiguredPart = NoPart
  /\ commentIndex = 0
  /\ stopped = FALSE
  /\ units = <<>>
  /\ result = ""
  /\ runs = 0
  /\ outcome = NoOutcome
  /\ \E manual \in UNION {[1..n -> 1..Len(ManualPool)] : n \in 0..MaxPrefixes} :
       settings = [WorkspaceSettings(LineLimit, "length", TRUE,
                                     DEFAULT_GROUP_ORDER_WITH_SEPARATORS)
                     EXCEPT !.aliasPrefixes =
                              [n \in 1..Len(manual) |-> ManualPool[manual[n]]]]
  /\ \E detected \in UNION {[1..n -> 1..Len(DetectedPool)] : n \in 0..MaxPrefixes},
        around \in ProjectPool :
       project = [documentUri |-> around.documentUri,
                  detectFromProjectConfig |-> around.detectFromProjectConfig,
                  projectRoot |-> around.projectRoot,
                  detectedPrefixes |->
                    [n \in 1..Len(detected) |-> DetectedPool[detected[n]]]]
  /\ config = getSortConfig(settings)
  /\ pc = "resolve"
  /\ blocks = <<>>
  /\ position = 0
  /\ mergedEntries = <<>>
  /\ passthroughBlocks = <<>>
  /\ output = <<>>

\* resolveAliasPrefixes(documentUri, manualAliasPrefixes, detectFromProjectConfig)
ResolveAliasPrefixes ==
  /\ pc = "resolve"
  /\ output' = resolveAliasPrefixes(project.documentUri, settings.aliasPrefixes,
                                    project.detectFromProjectConfig,
                                    [projectRoot |-> project.projectRoot,
                                     detectedPrefixes |-> project.detectedPrefixes])
  /\ pc' = "resolved"
  /\ UNCHANGED <<documentVars, config, blocks, position, mergedEntries, passthroughBlocks>>

NextAlias == ResolveAliasPrefixes

SpecAlias == InitAlias /\ [][NextAlias]_vars

\* resolveAliasPrefixes has returned
Resolved == pc = "resolved"

\* the project's prefixes are looked at
Detecting ==
  /\ project.detectFromProjectConfig
  /\ project.documentUri.defined
  /\ project.documentUri.scheme = "file"
  /\ project.projectRoot

\* the prefixes the result is made of, normalized one by one: the manual
\* ones, the detected ones when the project is looked at, the defaults
Candidates ==
  LET Each(prefixes) == [n \in 1..Len(prefixes) |-> normalizeAliasPrefix(prefixes[n])]
  IN Each(settings.aliasPrefixes)
       \o (IF Detecting THEN Each(project.detectedPrefixes) ELSE <<>>)
       \o DEFAULT_ALIAS_PREFIXES

\* the list holds the non-empty values of candidates, each once, in the
\* order of their first occurrence among candidates
FirstOccurrences(list, candidates) ==
  /\ \A n \in 1..Len(list) : \E m \in 1..Len(candidates) : candidates[m] = list[n]
  /\ \A m \in 1..Len(candidates) :
       candidates[m] # "" => \E n \in 1..Len(list) : list[n] = candidates[m]
  /\ \A i, j \in 1..Len(list) :
       i < j =>
         /\ list[i] # list[j]
         /\ Least({m \in 1..Len(candidates) : candidates[m] = list[i]}, 0)
              < Least({m \in 1..Len(candidates) : candidates[m] = list[j]}, 0)

\* C19: resolveAliasPrefixes returns a duplicate-free list of non-empty
\* prefixes ending with `/`: the normalized manual prefixes, then the
\* detected ones, then the defaults, each value at its first occurrence;
\* with detection disabled, a document that is not a file or no project
\* root, the manual prefixes followed by the defaults
C19_AliasPrefixes ==
  Resolved =>
    /\ \A n \in 1..Len(output) : output[n] # "" /\ EndsWith(output[n], "/")
    /\ FirstOccurrences(output, Candidates)

\* the project is looked at: the result holds a detected prefix between
\* the manual ones and the defaults, and `@/` once although it is both a
\* manual prefix and a default
C19_Witness ==
  /\ Resolved
  /\ Detecting
  /\ settings.aliasPrefixes = <<" lib/* ", "@/">>
  /\ project.detectedPrefixes = <<"#/*", "app/">>
  /\ output = <<"lib/", "@/", "#/", "app/", "~/", "src/">>

\* the README example after sorting
ReadmeAfter ==
  "import { Component } from 'react';\n"
  \o "\n"
  \o "import axios from 'axios';\n"
  \o "import lodash from 'lodash';\n"
  \o "\n"
  \o "import { apiCall, getProfile } from '@/services/api';\n"
  \o "\n"
  \o "import { someUtilFunction, anotherFunction } from '../utils/helpers';\n"
  \o "\n"
  \o "import './styles.css';\n"
  \o "\n"
  \o "interface User {\n"
  \o "  id: number;\n"
  \o "  age: number;\n"
  \o "  name: string;\n"
  \o "  email: string;\n"
  \o "  verylongpropertynamefortest: string;\n"
  \o "}\n"
  \o "\n"
  \o "// Comment about utils\n"
  \o "/* Comment about API service */\n"

\* C20: under the default configuration the README example given before
\* sorting is sorted into exactly the text the README gives after sorting
C20_ReadmeExample ==
  Done /\ document = ReadmeBefore
       /\ settings = WorkspaceSettings(DefaultMaxLineLength, "length", TRUE,
                                       DEFAULT_GROUP_ORDER_WITH_SEPARATORS)
    => result = ReadmeAfter

\* the places of the lines of text that match the directive pattern
DirectivePlaces(text) == {n \in 1..Len(text) : IsDirective(Trim(text[n]))}

\* C21: every line of the document that matches the directive pattern,
\* wherever it stands, is emitted in the directives group: with the default
\* group order the sorted content holds as many directive lines as the
\* document, each written '<text>'; and all of them before any other text
C21_DirectiveRelocation ==
  LET Relocated(given, emitted) ==
        /\ Cardinality(DirectivePlaces(emitted)) = Cardinality(DirectivePlaces(given))
        /\ \A n \in DirectivePlaces(emitted) :
             /\ At(emitted[n], 0) = "'"
             /\ EndsWith(emitted[n], "';")
             /\ \A m \in 1..(n - 1) : m \in DirectivePlaces(emitted)
  IN Done /\ settings.groupsOrder = DEFAULT_GROUP_ORDER_WITH_SEPARATORS
       => Relocated(SplitLines(document), SplitLines(result))

(***************************************************************************)
(* collectFunctionBlock on its own: called at the first line of a          *)
(* function-like header followed by up to MaxLines lines of a pool.        *)
(***************************************************************************)

\* lines after the header collectFunctionBlock is called at
MaxLines == 3

\* the headers: ending with `;`, opening a brace, opening none, and opening
\* and closing on one line
HeaderPool ==
  <<"const k = 1;", "function f() {", "function f()", "export const g = () => ({",
    "export { a }">>

\* the lines after the header
LinePool == <<"{", "}", "  g();", "});", "} else {">>

InitFunction ==
  /\ document = ""
  /\ \E header \in 1..Len(HeaderPool),
        picks \in UNION {[1..n -> 1..Len(LinePool)] : n \in 0..MaxLines} :
       lines = <<HeaderPool[header]>> \o [n \in 1..Len(picks) |-> LinePool[picks[n]]]
  /\ idx = 0
  /\ sectionParts = <<>>
  /\ currentConfiguredPart = NoPart
  /\ commentIndex = 0
  /\ stopped = FALSE
  /\ units = <<>>
  /\ result = ""
  /\ runs = 0
  /\ outcome = NoOutcome
  /\ project = NoProject
  /\ NoDetection
  /\ settings = WorkspaceSettings(LineLimit, "length", TRUE,
                                  DEFAULT_GROUP_ORDER_WITH_SEPARATORS)
  /\ config = getSortConfig(settings)
  /\ pc = "collect"
  /\ blocks = <<>>
  /\ position = 0
  /\ mergedEntries = <<>>
  /\ passthroughBlocks = <<>>
  /\ output = <<>>

\* collectFunctionBlock(lines, idx)
CollectFunctionBlock ==
  /\ pc = "collect"
  /\ output' = <<collectFunctionBlock(lines, idx)>>
  /\ pc' = "collected"
  /\ UNCHANGED <<documentVars, config, blocks, position, mergedEntries, passthroughBlocks>>

NextFunction == CollectFunctionBlock

SpecFunction == InitFunction /\ [][NextFunction]_vars

\* collectFunctionBlock has returned
Collected == pc = "collected"

\* the numbers of lines, from the header on, after which a brace has been
\* opened and the running count of braces is zero
ClosedAfter(text) ==
  {k \in 1..Len(text) :
     /\ \E n \in 1..k : Includes(text[n], "{")
     /\ CountChar(Concat(SubSeq(text, 1, k)), "{")
          = CountChar(Concat(SubSeq(text, 1, k)), "}")}

\* C22: a header ending in `;` is returned as a one-line unit; every other
\* header is collected up to the first line after which a brace has been
\* opened and the count is back to zero, also when the opening brace is on
\* a later line, and is incomplete only when the lines end before that
C22_FunctionBlock ==
  LET Unit(found, closed) ==
        IF EndsWith(Trim(lines[1]), ";")
        THEN found.ok /\ found.nextIdx = 1 /\ found.block = lines[1]
        ELSE IF closed = {} THEN ~found.ok
        ELSE found.ok /\ found.nextIdx = Least(closed, 0)
  IN Collected => Unit(output[1], ClosedAfter(lines))

\* the index of the `=` of a type alias: the first one outside the angle
\* brackets of its generic parameter list; -1 when there is none
AliasEquals(block) ==
  Least({i \in 0..(Len(block) - 1) :
           /\ At(block, i) = "="
           /\ CountChar(Slice(block, 0, i), "<") = CountChar(Slice(block, 0, i), ">")},
        -1)

\* the block is a type alias whose right-hand side does not start with `{`
NotObjectShaped(block) ==
  LET Other(equalsIdx) ==
        equalsIdx # -1 /\ At(block, FirstNonSpace(block, equalsIdx + 1)) # "{"
  IN StartsDeclaration(block, "type") /\ Other(AliasEquals(block))

\* C23: sortTypeMembers returns unchanged every type alias whose
\* right-hand side is not an object literal, an alias whose generic
\* parameter list holds a default such as `<T = {...}>` included
C23_NonObjectUnchanged ==
  Sorted /\ NotObjectShaped(blocks[1]) => output[1] = blocks[1]

(***************************************************************************)
(* The delimiter scanner on its own: findMatchingBraceIndex is called on   *)
(* a text that starts with an opening brace.                               *)
(***************************************************************************)

\* the largest number of tokens after the opening brace
MaxTokens == 3

\* what the scanned texts are made of: braces, the three quotes, a
\* backslash, comment openers and closers, a slash, a star and a line break
TokenPool == <<"{", "}", "'", "\"", Backtick, "\\", "/*", "*/", "/", "//", "\n">>

InitBrace ==
  /\ document = ""
  /\ lines = <<>>
  /\ idx = 0
  /\ sectionParts = <<>>
  /\ currentConfiguredPart = NoPart
  /\ commentIndex = 0
  /\ stopped = FALSE
  /\ units = <<>>
  /\ result = ""
  /\ runs = 0
  /\ outcome = NoOutcome
  /\ project = NoProject
  /\ NoDetection
  /\ settings = WorkspaceSettings(LineLimit, "length", TRUE,
                                  DEFAULT_GROUP_ORDER_WITH_SEPARATORS)
  /\ config = getSortConfig(settings)
  /\ pc = "scan"
  /\ \E picks \in UNION {[1..n -> 1..Len(TokenPool)] : n \in 0..MaxTokens} :
       blocks = <<"{" \o Concat([n \in 1..Len(picks) |-> TokenPool[picks[n]]])>>
  /\ position = 0
  /\ mergedEntries = <<>>
  /\ passthroughBlocks = <<>>
  /\ output = <<>>

\* findMatchingBraceIndex(text, openBraceIdx)
FindMatchingBraceIndex ==
  /\ pc = "scan"
  /\ output' = <<findMatchingBraceIndex(blocks[1], position)>>
  /\ pc' = "scanned"
  /\ UNCHANGED <<documentVars, config, blocks, position, mergedEntries, passthroughBlocks>>

NextBrace == FindMatchingBraceIndex

SpecBrace == InitBrace /\ [][NextBrace]_vars

Scanned == pc = "scanned"

RECURSIVE ClosingBraceFrom(_, _, _, _)
\* The closing brace as the five lexical modes define it, read one character
\* at a time from index i on: mode is "code", "line", "block" or the quote
\* that opened the string being read; depth counts the braces read in code.
\* A block comment is read from the character after its opening /* and ends
\* at the first */ found there.
ClosingBraceFrom(text, i, mode, depth) ==
  LET char == At(text, i)
      pair == Slice(text, i, i + 2)
  IN IF i >= Len(text) THEN -1
     ELSE IF mode = "line"
     THEN ClosingBraceFrom(text, i + 1, IF char = "\n" THEN "code" ELSE mode, depth)
     ELSE IF mode = "block"
     THEN IF pair = "*/" THEN ClosingBraceFrom(text, i + 2, "code", depth)
          ELSE ClosingBraceFrom(text, i + 1, mode, depth)
     ELSE IF mode # "code"
     THEN ClosingBraceFrom(text, i + 1,
                           IF char = mode /\ At(text, i - 1) # "\\" THEN "code" ELSE mode,
                           depth)
     ELSE IF pair = "//" THEN ClosingBraceFrom(text, i + 2, "line", depth)
     ELSE IF pair = "/*" THEN ClosingBraceFrom(text, i + 2, "block", depth)
     ELSE IF char \in {"'", "\"", Backtick} THEN ClosingBraceFrom(text, i + 1, char, depth)
     ELSE IF char = "{" THEN ClosingBraceFrom(text, i + 1, mode, depth + 1)
     ELSE IF char # "}" THEN ClosingBraceFrom(text, i + 1, mode, depth)
     ELSE IF depth = 1 THEN i
     ELSE ClosingBraceFrom(text, i + 1, mode, depth - 1)

\* C24: findMatchingBraceIndex returns the index of the brace that closes
\* the one at openBraceIdx, counting only the braces outside strings, line
\* comments and block comments (a block comment ending at the first */ after
\* its opening /*), and -1 when there is no such brace
C24_MatchingBrace ==
  Scanned => output[1] = ClosingBraceFrom(blocks[1], position, "code", 0)

(***************************************************************************)
(* One group of a configured part on its own: getGroupBlock is called on   *)
(* the imports collected into one group.                                   *)
(***************************************************************************)

\* the largest number of imports in the group
MaxItems == 2

\* the imports a group is filled from
ItemPool ==
  <<"import b from 'b';", "import type { T } from 'b';", "import { x } from 'b';",
    "import * as n from 'A';", "import 'b';", "import aa from 'a';">>

InitGroup ==
  /\ document = ""
  /\ lines = <<>>
  /\ idx = 0
  /\ sectionParts = <<>>
  /\ commentIndex = 0
  /\ stopped = FALSE
  /\ units = <<>>
  /\ result = ""
  /\ runs = 0
  /\ outcome = NoOutcome
  /\ project = NoProject
  /\ NoDetection
  /\ settings \in {WorkspaceSettings(DefaultMaxLineLength, mode, merge, DEFAULT_GROUP_ORDER) :
                     mode \in SortModes, merge \in BOOLEAN}
  /\ config = getSortConfig(settings)
  /\ pc = "block"
  /\ \E group \in {"react", "libraries", "sideEffect"},
        picks \in UNION {[1..n -> 1..Len(ItemPool)] : n \in 0..MaxItems} :
       currentConfiguredPart =
         [type |-> "configured", value |-> "",
          groups |-> [createEmptyGroups EXCEPT
                        ![group] = [n \in 1..Len(picks) |-> ItemPool[picks[n]]]]]
  /\ blocks = <<>>
  /\ position = 0
  /\ mergedEntries = <<>>
  /\ passthroughBlocks = <<>>
  /\ output = <<>>

\* getGroupBlock(group, groups, config) for one of the import groups
GetGroupBlock ==
  /\ pc = "block"
  /\ \E group \in ImportGroupKey :
       /\ blocks' = <<group>>
       /\ output' = <<getGroupBlock(group, currentConfiguredPart.groups, config)>>
  /\ pc' = "rendered"
  /\ UNCHANGED <<documentVars, config, position, mergedEntries, passthroughBlocks>>

NextGroup == GetGroupBlock

SpecGroup == InitGroup /\ [][NextGroup]_vars

\* a group that holds imports has been rendered
RenderedGroup == pc = "rendered" /\ output[1] # ""

\* a comes no later than b in length mode: shorter first, texts of one
\* length by their letters whatever their case
ByLength(a, b) ==
  \/ Len(a) < Len(b)
  \/ Len(a) = Len(b) /\ LocaleCompare(ToLower(a), ToLower(b)) <= 0

\* a comes no later than b in alphabetical mode: by source whatever its
\* case, then type-only first, then by the rank of the clause, then by
\* the clause
BySourcePath(a, b) ==
  LET Clauses(clauseA, clauseB, rankA, rankB) ==
        \/ rankA < rankB
        \/ rankA = rankB /\ LocaleCompare(ToLower(clauseA), ToLower(clauseB)) <= 0
      Parsed(parsedA, parsedB, sources) ==
        \/ sources < 0
        \/ /\ sources = 0
           /\ \/ parsedA.isTypeOnly /\ ~parsedB.isTypeOnly
              \/ /\ parsedA.isTypeOnly = parsedB.isTypeOnly
                 /\ Clauses(parsedA.importClause, parsedB.importClause,
                            getImportClauseRank(parsedA.importClause),
                            getImportClauseRank(parsedB.importClause))
      Sources(parsedA, parsedB) ==
        Parsed(parsedA, parsedB,
               LocaleCompare(ToLower(parsedA.source), ToLower(parsedB.source)))
  IN Sources(parseImportBlock(Normalize(a)), parseImportBlock(Normalize(b)))

\* C25: the statements of a rendered import group are in non-decreasing
\* order: by length and then by text in length mode; by source, type-only
\* first, clause rank and clause in alphabetical mode
C25_GroupOrder ==
  LET Ordered(emitted) ==
        /\ output[1] = Join(emitted, "\n")
        /\ \A n \in 1..(Len(emitted) - 1) :
             IF config.sortMode = "alphabetical"
             THEN BySourcePath(emitted[n], emitted[n + 1])
             ELSE ByLength(emitted[n], emitted[n + 1])
  IN RenderedGroup =>
       Ordered(SortedImports(blocks[1], currentConfiguredPart.groups[blocks[1]], config))

\* a type-only import collected after a value import of its source is
\* rendered before it
C25_Witness ==
  /\ RenderedGroup
  /\ config.sortMode = "alphabetical"
  /\ currentConfiguredPart.groups[blocks[1]]
       = <<"import b from 'b';", "import type { T } from 'b';">>
  /\ output[1] = "import type { T } from 'b';\nimport b from 'b';"

(***************************************************************************)
(* The configuration boundary on its own: getSortConfig reads whatever     *)
(* the workspace settings hold.                                            *)
(***************************************************************************)

\* the largest number of entries of the styleExtensions setting
MaxExtensions == 2

\* the values of the maxLineLength setting: negative, zero, one, the default
LineLengthPool == {-1, 0, 1, DefaultMaxLineLength}

\* the entries of the styleExtensions setting
ExtensionPool == <<".css", " SCSS ", "  ", "less">>

\* the values of the groupsOrder setting
ConfigGroupsOrders ==
  {DEFAULT_GROUP_ORDER_WITH_SEPARATORS, <<>>,
   <<"spacing", "imports", " react ", "react", "spacing">>}

InitConfig ==
  /\ document = ""
  /\ lines = <<>>
  /\ idx = 0
  /\ sectionParts = <<>>
  /\ currentConfiguredPart = NoPart
  /\ commentIndex = 0
  /\ stopped = FALSE
  /\ units = <<>>
  /\ result = ""
  /\ runs = 0
  /\ outcome = NoOutcome
  /\ project = NoProject
  /\ NoDetection
  /\ \E maxLineLength \in LineLengthPool, mode \in SortModes,
        order \in ConfigGroupsOrders,
        picks \in UNION {[1..n -> 1..Len(ExtensionPool)] : n \in 0..MaxExtensions} :
       settings = [WorkspaceSettings(maxLineLength, mode, TRUE, order)
                     EXCEPT !.styleExtensions =
                              [n \in 1..Len(picks) |-> ExtensionPool[picks[n]]]]
  /\ config = getSortConfig(WorkspaceSettings(DefaultMaxLineLength, "length", TRUE,
                                              DEFAULT_GROUP_ORDER_WITH_SEPARATORS))
  /\ pc = "configure"
  /\ blocks = <<>>
  /\ position = 0
  /\ mergedEntries = <<>>
  /\ passthroughBlocks = <<>>
  /\ output = <<>>

\* getSortConfig()
GetSortConfig ==
  /\ pc = "configure"
  /\ config' = getSortConfig(settings)
  /\ pc' = "configured"
  /\ UNCHANGED <<documentVars, callVars>>

NextConfig == GetSortConfig

SpecConfig == InitConfig /\ [][NextConfig]_vars

Configured == pc = "configured"

\* the style extensions of the configuration are lowercase and start with a
\* dot, and there is at least one
SafeStyleExtensions ==
  /\ Len(config.styleExtensions) > 0
  /\ \A n \in 1..Len(config.styleExtensions) :
       /\ StartsWith(config.styleExtensions[n], ".")
       /\ config.styleExtensions[n] = ToLower(config.styleExtensions[n])

\* the groups order of the configuration names groups and separators only
SafeGroupsOrder ==
  \A n \in 1..Len(config.groupsOrder) : config.groupsOrder[n] \in GroupKey \cup {Separator}

\* C26: the configuration getSortConfig returns has a maxLineLength of at
\* least 1, a non-empty list of lowercase dot-prefixed style extensions and
\* a groups order without unknown names, whatever the settings hold
C26_SafeConfiguration ==
  Configured => config.maxLineLength >= 1 /\ SafeStyleExtensions /\ SafeGroupsOrder

\* the sources of the statements of a list that parse
SourcesOf(statements) ==
  LET Given(parsed) == {parsed[n].source : n \in {m \in 1..Len(parsed) : parsed[m].ok}}
  IN Given([n \in 1..Len(statements) |-> parseImportBlock(Normalize(statements[n]))])

\* statement is a well-formed import of one of sources: a side-effect import
\* or one with a clause, read back by parseImportBlock and complete
WellFormedImport(statement, sources) ==
  LET Read(normalized, parsed) ==
        /\ parsed.ok
        /\ isSideEffectImport(normalized) \/ parsed.importClause # ""
        /\ parsed.source \in sources
  IN /\ Read(Normalize(statement), parseImportBlock(Normalize(statement)))
     /\ isCompleteImport(statement)

\* C27: every statement mergeImportStatements returns for complete import
\* statements is a well-formed import: a side-effect import or one with a
\* clause, read back by parseImportBlock with a source of the input, and
\* accepted as a complete import
C27_WellFormedOutput ==
  LET Each(sources) ==
        \A n \in 1..Len(output) : WellFormedImport(output[n], sources)
  IN Merged /\ (\A n \in 1..Len(blocks) : isCompleteImport(blocks[n]))
       => Each(SourcesOf(blocks))

\* how many times x occurs in seq
Occurrences(seq, x) == Cardinality({n \in 1..Len(seq) : seq[n] = x})

\* the lines of the members of a list, one member after the other
MemberLines(members) == Split(Join(members, "\n"), "\n")

\* block is header, a body and footer, and the lines of the body are those
\* of members, each as many times as there, within one line break at each end
Permuted(block, header, footer, members) ==
  LET SameLines(given, written) ==
        /\ Len(written) = Len(given) + 2
        /\ written[1] = "" /\ written[Len(written)] = ""
        /\ \A n \in 1..Len(given) :
             Occurrences(written, given[n]) =
               Occurrences(given, given[n]) + (IF given[n] = "" THEN 2 ELSE 0)
  IN /\ StartsWith(block, header)
     /\ EndsWith(block, footer)
     /\ Len(block) >= Len(header) + Len(footer)
     /\ SameLines(MemberLines(members),
                  Split(Slice(block, Len(header), Len(block) - Len(footer)), "\n"))

\* C28: sortTypeMembers only permutes: the header up to the opening brace
\* and the footer from the closing brace are those of the given block, and
\* the body holds the lines of the members collected from the given body
\* (their object literals put in order), none lost and none twice
C28_OnlyPermutes ==
  LET Kept(bodyRange, members) ==
        Len(members) > 0 =>
          Permuted(output[1], Slice(blocks[1], 0, bodyRange.openBraceIdx + 1),
                   SliceFrom(blocks[1], bodyRange.closeBraceIdx), members)
  IN Sorted => Kept(findTopLevelBodyRange(blocks[1]), MembersOf(blocks[1], config))

\* a type alias of two members given out of alphabetical order, a nested
\* object literal in one of them, and sortTypeMembers has exchanged them
C28_Witness ==
  /\ Sorted
  /\ config.sortMode = "alphabetical"
  /\ blocks[1] = "export type T = {\n  c: { y: string; x: number };\n  b: string;\n}"
  /\ output[1] # blocks[1]
  /\ StartsWith(output[1], "export type T = {\n  b: string;\n  c: {")

\* the lines of a list that are not blank
WrittenLines(text) == KeepUpTo(text, {n \in 1..Len(text) : Trim(text[n]) # ""}, Len(text))

\* the lines before idx are the blank lines skipped and the lines of the
\* units collected, in order: idx is the first line of the remainder
FinalIndex ==
  LET Consumed(collected) ==
        WrittenLines(SubSeq(lines, 1, idx))
          = WrittenLines(Split(Join([n \in 1..Len(collected) |-> collected[n].block], "\n"),
                               "\n"))
  IN /\ idx <= Len(lines)
     /\ stopped => idx < Len(lines)
     /\ Consumed(units)

\* the number of iterations the walk loop can still take: one per line
\* from idx on, and the one that stops it
WalkVariant == (Len(lines) - idx) + (IF stopped THEN 0 ELSE 1)

\* C29: the walk terminates: every iteration of its loop moves the line
\* index forward, to the number of lines at most, or stops the walk where
\* it is, so the variant of the loop decreases and stays non-negative; once
\* stopped or at the last line the loop is left; and the index the walk is
\* left with is the first line of the remainder
C29_WalkTerminates ==
  /\ [][pc = "walk" /\ pc' = "walk"
          => /\ \/ idx' > idx /\ idx' <= Len(lines) /\ ~stopped'
                \/ idx' = idx /\ stopped' /\ ~stopped
             /\ WalkVariant' < WalkVariant /\ WalkVariant' >= 0]_vars
  /\ [][pc = "walk" /\ (stopped \/ idx >= Len(lines)) => pc' = "done"]_vars
  /\ [](Done => FinalIndex)

\* the walk has collected a unit of several lines and stopped before the
\* last line
C29_Witness ==
  /\ Done
  /\ stopped
  /\ idx > 1 /\ idx < Len(lines)
  /\ \E n \in 1..Len(units) : Includes(units[n].block, "\n")

(***************************************************************************)
(* Alias detection in the project configuration (projectAliasResolver.ts): *)
(* resolveTypeScriptAliasPrefixes calls collectTypeScriptAliases on the    *)
(* configuration files of the project root, and the latter calls itself    *)
(* on what a file extends and references.  The calls still to be made are  *)
(* kept in pendingConfigPaths, the next one first; a path is the name of a *)
(* file in the project root, "." being the root itself.                    *)
(***************************************************************************)

PROJECT_CONFIG_FILES == <<"tsconfig.json", "jsconfig.json">>

\* the files a project may hold in its root
ConfigFileNames == {"tsconfig.json", "jsconfig.json", "base.json"}

NoConfigFile ==
  [exists |-> FALSE, parses |-> FALSE, paths |-> <<>>, extends |-> "", references |-> <<>>]

\* what a configuration file may hold: paths only; a file that extends
\* another without naming its extension; one that extends tsconfig.json and
\* references jsconfig.json; one that extends a package and references the
\* root, a file and a missing one; a text that is not JSON; and no file
ConfigPool ==
  <<[exists |-> TRUE, parses |-> TRUE, paths |-> <<"@app/*">>, extends |-> "",
     references |-> <<>>],
    [exists |-> TRUE, parses |-> TRUE, paths |-> <<"#/*">>, extends |-> "./base",
     references |-> <<>>],
    [exists |-> TRUE, parses |-> TRUE, paths |-> <<"~lib/*", "*">>,
     extends |-> "./tsconfig.json", references |-> <<"./jsconfig.json">>],
    [exists |-> TRUE, parses |-> TRUE, paths |-> <<>>, extends |-> "pkg/base",
     references |-> <<".", "./base.json", "./missing">>],
    [exists |-> TRUE, parses |-> FALSE, paths |-> <<"x/*">>, extends |-> "./base.json",
     references |-> <<>>],
    NoConfigFile>>

\* fs.existsSync(path)
ExistsSync(files, path) ==
  path = "." \/ (path \in DOMAIN files /\ files[path].exists)

\* path.normalize, and path.resolve(path.dirname(fromConfigPath), value) for
\* a configuration file of the root: the leading ./ of the value goes
PathNormalize(value) ==
  IF StartsWith(value, "./") THEN SliceFrom(value, 2) ELSE value

\* resolveConfigPathCandidate; "" stands for null
resolveConfigPathCandidate(files, basePath) ==
  IF ExistsSync(files, basePath) THEN basePath
  ELSE IF ~EndsWith(basePath, ".json") /\ ExistsSync(files, basePath \o ".json")
  THEN basePath \o ".json"
  ELSE ""

resolveExtendedConfigPath(files, extendsValue) ==
  IF ~StartsWith(extendsValue, ".") THEN ""
  ELSE resolveConfigPathCandidate(files, PathNormalize(extendsValue))

resolveReferencedConfigPath(files, referencePath) ==
  LET InDirectory(found) ==
        IF found # {} THEN PROJECT_CONFIG_FILES[Least(found, 0)]
        ELSE resolveConfigPathCandidate(files, "tsconfig")
      ResolvedTo(resolvedReferencePath) ==
        IF resolvedReferencePath = "."
        THEN InDirectory({n \in 1..Len(PROJECT_CONFIG_FILES) :
                            ExistsSync(files, PROJECT_CONFIG_FILES[n])})
        ELSE resolveConfigPathCandidate(files, resolvedReferencePath)
  IN ResolvedTo(PathNormalize(referencePath))

\* visitedConfigPaths.has(normalizedConfigPath) always false
neverVisited(visited, normalizedConfigPath) == FALSE

\* visitedConfigPaths.has(normalizedConfigPath)
hasVisited(visited, normalizedConfigPath) == normalizedConfigPath \in visited

\* the calls collectTypeScriptAliases makes on behalf of a parsed
\* configuration: the one on what it extends, then those on its references
NestedCalls(files, parsedConfig) ==
  NonEmpty(<<resolveExtendedConfigPath(files, parsedConfig.extends)>>
             \o [n \in 1..Len(parsedConfig.references) |->
                   resolveReferencedConfigPath(files, parsedConfig.references[n])])

\* the prefixes collectTypeScriptAliases pushes for the paths of a
\* configuration
PushedPrefixes(parsedConfig) ==
  NonEmpty([n \in 1..Len(parsedConfig.paths) |-> normalizeAliasPrefix(parsedConfig.paths[n])])

InitDetect ==
  /\ document = ""
  /\ lines = <<>>
  /\ idx = 0
  /\ sectionParts = <<>>
  /\ currentConfiguredPart = NoPart
  /\ commentIndex = 0
  /\ stopped = FALSE
  /\ units = <<>>
  /\ result = ""
  /\ runs = 0
  /\ outcome = NoOutcome
  /\ NoDetection
  /\ settings = WorkspaceSettings(LineLimit, "length", TRUE,
                                  DEFAULT_GROUP_ORDER_WITH_SEPARATORS)
  /\ config = getSortConfig(settings)
  /\ \E held \in [ConfigFileNames -> 1..Len(ConfigPool)] :
       project = [documentUri |-> [defined |-> TRUE, scheme |-> "file"],
                  detectFromProjectConfig |-> TRUE, projectRoot |-> TRUE,
                  configFiles |-> [name \in ConfigFileNames |-> ConfigPool[held[name]]]]
  /\ pc = "detect"
  /\ blocks = <<>>
  /\ position = 0
  /\ mergedEntries = <<>>
  /\ passthroughBlocks = <<>>
  /\ output = <<>>

\* resolveTypeScriptAliasPrefixes up to its loop over configPaths
ResolveTypeScriptAliasPrefixes ==
  /\ pc = "detect"
  /\ pendingConfigPaths' =
       KeepUpTo(PROJECT_CONFIG_FILES,
                {n \in 1..Len(PROJECT_CONFIG_FILES) :
                   ExistsSync(project.configFiles, PROJECT_CONFIG_FILES[n])},
                Len(PROJECT_CONFIG_FILES))
  /\ visitedConfigPaths' = {}
  /\ parsedConfigPaths' = <<>>
  /\ output' = <<>>
  /\ pc' = "collect"
  /\ UNCHANGED <<document, settings, walkVars, result, runs, outcome, project,
                 blocks, position, mergedEntries, passthroughBlocks>>

\* one call of collectTypeScriptAliases, the calls it makes itself left
\* pending
CollectTypeScriptAliases ==
  LET Returned ==
        /\ pendingConfigPaths' = Tail(pendingConfigPaths)
        /\ UNCHANGED <<visitedConfigPaths, parsedConfigPaths, output>>
      Parsed(normalizedConfigPath, parsedConfig) ==
        /\ visitedConfigPaths' = visitedConfigPaths \cup {normalizedConfigPath}
        /\ parsedConfigPaths' = Append(parsedConfigPaths, normalizedConfigPath)
        /\ IF ~parsedConfig.parses
           THEN /\ output' = output
                /\ pendingConfigPaths' = Tail(pendingConfigPaths)
           ELSE /\ output' = output \o PushedPrefixes(parsedConfig)
                /\ pendingConfigPaths' =
                     NestedCalls(project.configFiles, parsedConfig) \o Tail(pendingConfigPaths)
      Called(normalizedConfigPath) ==
        IF \/ hasVisited(visitedConfigPaths, normalizedConfigPath)
           \/ ~ExistsSync(project.configFiles, normalizedConfigPath)
        THEN Returned
        ELSE Parsed(normalizedConfigPath, project.configFiles[normalizedConfigPath])
  IN /\ pc = "collect"
     /\ pendingConfigPaths # <<>>
     /\ Called(PathNormalize(Head(pendingConfigPaths)))
     /\ UNCHANGED <<document, settings, pc, walkVars, result, runs, outcome, project,
                    blocks, position, mergedEntries, passthroughBlocks>>

\* the return of resolveTypeScriptAliasPrefixes
ReturnDetectedPrefixes ==
  /\ pc = "collect"
  /\ pendingConfigPaths = <<>>
  /\ pc' = "detected"
  /\ UNCHANGED <<documentVars, config, callVars>>

NextDetect ==
  \/ ResolveTypeScriptAliasPrefixes
  \/ CollectTypeScriptAliases
  \/ ReturnDetectedPrefixes

SpecDetect == InitDetect /\ [][NextDetect]_vars

\* the calls a configuration file of the pool makes at most, and one more
MostCalls ==
  2 + Len(ConfigPool[CHOOSE n \in 1..Len(ConfigPool) :
                       \A m \in 1..Len(ConfigPool) :
                         Len(ConfigPool[m].references) <= Len(ConfigPool[n].references)]
            .references)

\* what is left of the detection: the files not visited yet, each worth the
\* calls it can make, and the calls pending
DetectVariant ==
  Cardinality({name \in ConfigFileNames :
                 project.configFiles[name].exists /\ name \notin visitedConfigPaths})
      * MostCalls
    + Len(pendingConfigPaths)

\* C30: the collection of alias prefixes terminates on any graph of extends
\* and references links, cycles included: every call of
\* collectTypeScriptAliases visits a file not visited before or returns at
\* once, so the variant decreases and stays non-negative; no path is parsed
\* twice; and a call on a visited path adds no prefix
C30_DetectionTerminates ==
  /\ [][pc = "collect" /\ pc' = "collect"
          => DetectVariant' < DetectVariant /\ DetectVariant' >= 0]_vars
  /\ [][(/\ pc = "collect" /\ pendingConfigPaths # <<>>
         /\ PathNormalize(Head(pendingConfigPaths)) \in visitedConfigPaths)
          => output' = output /\ parsedConfigPaths' = parsedConfigPaths]_vars
  /\ [](\A m, n \in 1..Len(parsedConfigPaths) :
          parsedConfigPaths[m] = parsedConfigPaths[n] => m = n)

\* tsconfig.json extends base.json, which extends tsconfig.json and
\* references jsconfig.json: the three files have been parsed, once each,
\* and the detection has returned
C30_Witness ==
  /\ pc = "detected"
  /\ project.configFiles["tsconfig.json"].extends = "./base"
  /\ project.configFiles["base.json"].extends = "./tsconfig.json"
  /\ parsedConfigPaths = <<"tsconfig.json", "base.json", "jsconfig.json">>
  /\ output = <<"#/", "~lib/", "@app/">>

====
